---------------------------- MODULE Spec2Model ----------------------------
(***************************************************************************)
(* Verification model of the embedding stage and of the crawlers of the    *)
(* Serverless repository:                                                  *)
(*   src/embedding/field_standardization.py  rule based job classification *)
(*   src/embedding/chunk_indexing.py         paragraph block chunking      *)
(*   src/wanted_job_posting                  spider and Mongo pipelines    *)
(*   src/jobkorea_cover_letter               spider and Mongo pipeline     *)
(*                                                                         *)
(* Text model.  A Python str is a sequence of tokens.  A token is a record *)
(* [w, n]: w names a maximal run of non-whitespace characters (a word) or  *)
(* one whitespace character (" " or "\n"), n is its length in characters.  *)
(* TLA+ strings are ASCII, so the Korean words of the rule tables are      *)
(* written in revised romanization:                                        *)
(*   dijaineo 디자이너   beuraendeu 브랜드   maketing 마케팅               *)
(*   gaebalja 개발자     baegendeu 백엔드    yeongeop 영업                 *)
(*   beopmu 법무         meosinreoning 머신러닝  rain 라인                 *)
(*   chaeyong 채용       enjinieo 엔지니어   mullyu 물류   insa 인사       *)
(*   keonseolteonteu 컨설턴트   chongmu 총무   yutubeu 유튜브              *)
(*   yeongsangpyeonjip 영상편집   seobiseugihoek 서비스기획                *)
(* A regular expression of the source is modelled by the set of vocabulary *)
(* words in which re.search finds a match; the regular expression itself   *)
(* is quoted beside each set.  No pattern of the source matches across two *)
(* vocabulary words without matching inside one of them, and none matches  *)
(* a proper prefix of a vocabulary word (a word cut by a slice).           *)
(*                                                                         *)
(* The chunker only measures, slices and joins its blocks, so there a str  *)
(* is the sequence of its characters.                                      *)
(*                                                                         *)
(* Specifications: SpecRules (match_by_rules), SpecDoc (classify_doc),     *)
(* SpecChunk (chunk_by_paragraph_blocks), SpecMain (main, the batch run),  *)
(* SpecSalary (standardize_company_salary), SpecSido (extract_sido),       *)
(* SpecMeta (norm_sido and the address part of build_blocks_and_meta),     *)
(* SpecWanted and SpecWantedLive (wanted Spider: start_requests and        *)
(* parse_list), SpecJk (jobkorea Spider), SpecPipe (process_item of the    *)
(* three pipelines), SpecPost (wanted Spider: parse_detail, parse_company  *)
(* and the two pipelines of the crawl).                                    *)
(***************************************************************************)
EXTENDS Integers, Sequences, FiniteSets, TLC

VARIABLES
    pc,         \* position of the modelled call: "call" before, "done" after;
                \* in main, the part of the run it is in
    title,      \* match_by_rules: argument title
    body,       \* match_by_rules: argument body
    ret,        \* match_by_rules: returned value
    doc,        \* classify_doc: the record read from the collection
    result,     \* classify_doc: the returned triple, or the exception raised
    blocks,         \* chunk_by_paragraph_blocks: argument blocks
    max_chars,      \* chunk_by_paragraph_blocks: argument max_chars
    overlap_chars,  \* chunk_by_paragraph_blocks: argument overlap_chars
    bi,             \* chunk_by_paragraph_blocks: index of the block b the loop is at
    cur,            \* chunk_by_paragraph_blocks: cur
    chunks,         \* chunk_by_paragraph_blocks: chunks
    pre,            \* history: for each chunk, len(tail + "\n\n") it was started with
    curPre,         \* history: the same for cur
    col,        \* main: the documents of master_job_postings, in cursor order
    save,       \* main: argument save
    limit,      \* main: argument limit, 0 for None
    mi,         \* main: index in col of the document the running loop is at
    results,    \* main: results
    report,     \* main: the totals printed at the end
    exc,        \* main: the exception that ended the run, None while none did
    run,        \* main: 1 in the first run over the store, 2 in the next, ...
    col0,       \* history: the store before the first run
    colPrev,    \* history: the store as the run before this one left it
    full_location,  \* extract_sido: argument full_location
    mode,           \* wanted Spider: self.mode
    max_jobs,       \* wanted Spider: self.max_jobs
    collected_count,    \* wanted Spider: self.collected_count
    crawled_urls,   \* wanted Spider: self.crawled_urls
    listing,        \* the site: the job ids of each list page, in order
    log,            \* master_crawler_logs: its documents, in insertion order
    scheduled,      \* the requests the scheduler holds
    issued,         \* history: the ids of the detail (wanted) or PassAssay
                    \* (jobkorea) requests yielded so far, in order
    max_companies,              \* jobkorea Spider: self.max_companies
    max_essays_per_company,     \* jobkorea Spider: self.max_essays_per_company
    crawled_companies,          \* jobkorea Spider: self.crawled_companies
    crawled_passassay_urls,     \* jobkorea Spider: self.crawled_passassay_urls
    company_pages,  \* the site: the links of each company list page, in order
    essay_pages,    \* the site: for each company, the number of essay links
                    \* of each page of its essay list
    seen,           \* the requests the duplicate filter of the scheduler has seen
    essays,         \* history: for each company, the cover letter requests
                    \* yielded so far
    log0,           \* history: master_crawler_logs at start-up
    wanted_job_postings,    \* the documents of wanted_job_postings, in
                            \* insertion order
    master_job_postings,    \* the documents of master_job_postings, as the
                            \* crawler writes them
    cover_letters,  \* the documents of cover_letters
    company_ids,    \* the site: job["company"]["id"] of each posting, 0 for none
    items,          \* the items yielded by callbacks and not yet processed
    clock,          \* datetime.now(), in calls of process_item
    called,         \* the last call of process_item: pipeline, item and the
                    \* write that raised ("none" when none did)
    returned        \* what that call returned, or the exception it raised

rulesVars == <<title, body, ret>>
docVars == <<doc, result>>
chunkVars == <<blocks, max_chars, overlap_chars, bi, cur, chunks, pre, curPre>>
mainVars == <<col, save, limit, mi, results, report, exc, run, col0, colPrev>>
jkVars == <<max_companies, max_essays_per_company, crawled_companies,
            crawled_passassay_urls, company_pages, essay_pages, seen, essays,
            log0>>
storeVars == <<wanted_job_postings, master_job_postings, cover_letters,
               company_ids, items, clock, called, returned>>
crawlVars == <<mode, max_jobs, collected_count, crawled_urls, listing, log,
               scheduled, issued, jkVars, storeVars>>
vars == <<pc, rulesVars, docVars, chunkVars, mainVars, full_location, crawlVars>>

---------------------------------------------------------------------------
(* Python values and strings *)

\* Python values are tagged records: None, a str with its tokens, a number,
\* a list with its items, a dict with its items (f maps the keys present);
\* Num(v) is the int v, Flt(i) the float i + 0.5
None == [k |-> "None"]
Str(s) == [k |-> "str", s |-> s]
Num(v) == [k |-> "num", v |-> v]
Flt(i) == [k |-> "float", floor |-> i]
List(l) == [k |-> "list", items |-> l]
Dict(f) == [k |-> "dict", f |-> f]

\* an exception leaving the call instead of a value
Raise(e) == [k |-> "raise", exc |-> e]

\* a bucket label is a TLA+ string; where the code returns None instead of a
\* label (Optional[str]) the model returns NoBucket, which names no bucket
NoBucket == "<None>"

\* one word of n characters
Word(w, n) == [w |-> w, n |-> n]

\* one space, one line feed
SP == [w |-> " ", n |-> 1]
NL == [w |-> "\n", n |-> 1]

\* the characters of each vocabulary word, as len() counts them
WordLen ==
    [ dijaineo |-> 4, beuraendeu |-> 3, maketing |-> 3, gaebalja |-> 3,
      baegendeu |-> 3, yeongeop |-> 2, security |-> 8, Security |-> 8,
      beopmu |-> 2, meosinreoning |-> 4, react |-> 5, rain |-> 2, ux |-> 2,
      UX |-> 2, chaeyong |-> 2, enjinieo |-> 4, mullyu |-> 2, insa |-> 2,
      keonseolteonteu |-> 4, pm |-> 2, PM |-> 2, chongmu |-> 2,
      yeongsangpyeonjip |-> 4, seobiseugihoek |-> 5, yutubeu |-> 3,
      kafka |-> 5, qa |-> 2, QA |-> 2 ]

W(w) == Word(w, WordLen[w])

\* str.lower() on one word: only the cased words of the vocabulary change
LowerWord(w) ==
    CASE w = "Security" -> "security"
      [] w = "UX" -> "ux"
      [] w = "PM" -> "pm"
      [] w = "QA" -> "qa"
      [] w = "None" -> "none"
      [] OTHER -> w

\* str.lower()
Lower(s) == [i \in DOMAIN s |-> [s[i] EXCEPT !.w = LowerWord(@)]]

\* len(s)
StrLen(s) ==
    LET RECURSIVE Sum(_)
        Sum(i) == IF i = 0 THEN 0 ELSE Sum(i - 1) + s[i].n
    IN Sum(Len(s))

\* (x or ""): the tokens of x, none when x is None
OrEmpty(x) == IF x.k = "str" THEN x.s ELSE <<>>

\* a run of n non-whitespace characters that no pattern matches
Pad(n) == Word("pad", n)

\* what a slice leaves of a token it cuts after r characters
Cut(tok, r) == Word(IF tok.w = "pad" THEN "pad" ELSE "cut", r)

IsSpace(tok) == tok.w \in {" ", "\n"}

\* s[:n]
RECURSIVE Take(_, _)
Take(s, n) ==
    IF s = <<>> \/ n <= 0 THEN <<>>
    ELSE IF Head(s).n <= n
         THEN <<Head(s)>> \o Take(Tail(s), n - Head(s).n)
         ELSE <<Cut(Head(s), n)>>

\* str.strip() on the tokens of a str
RECURSIVE LStrip(_)
LStrip(s) == IF s # <<>> /\ IsSpace(Head(s)) THEN LStrip(Tail(s)) ELSE s
RECURSIVE RStrip(_)
RStrip(s) ==
    IF s # <<>> /\ IsSpace(s[Len(s)]) THEN RStrip(SubSeq(s, 1, Len(s) - 1)) ELSE s
Strip(s) == RStrip(LStrip(s))

\* v.strip(): only a str has the method
StripM(v) == IF v.k = "str" THEN Str(Strip(v.s)) ELSE Raise("AttributeError")

\* s.splitlines()[0]: the tokens before the first line feed; splitlines() of
\* the empty str is the empty list
FirstLine(s) ==
    IF s = <<>> THEN Raise("IndexError")
    ELSE LET RECURSIVE Upto(_)
             Upto(i) == IF i > Len(s) \/ s[i] = NL THEN SubSeq(s, 1, i - 1)
                        ELSE Upto(i + 1)
         IN Str(Upto(1))

\* "\n".join(buf) on a list of token sequences
RECURSIVE JoinLines(_)
JoinLines(buf) ==
    IF buf = <<>> THEN <<>>
    ELSE IF Len(buf) = 1 THEN buf[1]
    ELSE buf[1] \o <<NL>> \o JoinLines(Tail(buf))

\* bool(v)
Truthy(v) ==
    CASE v.k = "None" -> FALSE
      [] v.k = "str" -> v.s # <<>>
      [] v.k = "num" -> v.v # 0
      [] v.k = "float" -> TRUE
      [] v.k = "list" -> v.items # <<>>
      [] v.k = "dict" -> DOMAIN v.f # {}

\* v[0]
Index0(v) ==
    IF v.k = "list" /\ v.items # <<>> THEN v.items[1]
    ELSE IF v.k = "str" /\ v.s # <<>> THEN Str(Take(v.s, 1))
    ELSE IF v.k \in {"list", "str"} THEN Raise("IndexError")
    ELSE IF v.k = "dict" THEN Raise("KeyError")
    ELSE Raise("TypeError")

\* str(v), for None, a str and a one digit number
PyStr(v) ==
    CASE v.k = "str" -> v
      [] v.k = "None" -> Str(<<Word("None", 4)>>)
      [] v.k = "num" -> Str(<<Word(ToString(v.v), 1)>>)

\* d.get(key): None when the key is missing
DictGet(d, key) ==
    IF d.k # "dict" THEN Raise("AttributeError")
    ELSE IF key \in DOMAIN d.f THEN d.f[key] ELSE None

\* re.search(p, s, flags=re.IGNORECASE): p is the set of (lower case) words
\* the pattern matches in
Search(p, s) == \E i \in DOMAIN s : LowerWord(s[i].w) \in p

---------------------------------------------------------------------------
(* Rule tables *)

BODY_DENY ==
    [ marketing |-> << {"gaebalja", "rain", "enjinieo"} >>,
        \* 개발자|엔지니어|프로그래머|api|배포|db|알고리즘|공정|품질|라인|설비
      backend |-> << {"dijaineo", "maketing", "yeongeop", "beopmu", "mullyu", "insa", "chongmu"} >>,
        \* 마케터|마케팅|영업|세일즈|디자이너|브랜딩|총무|인사|회계|법무|물류
      frontend |-> << {"maketing", "yeongeop", "beopmu", "rain", "mullyu"} >>,
        \* 마케터|마케팅|영업|세일즈|회계|법무|물류|공정|품질|라인|설비
      data |-> << {"yeongeop", "beopmu", "rain"} >>,
        \* 영업(?!\s*데이터)|세일즈(?!\s*데이터)|브랜딩|법무|공정|라인
      ai_ml |-> << {"yeongeop", "beopmu", "rain"} >>,
        \* 영업|세일즈|브랜딩|법무|공정|라인
      design |-> << {"baegendeu", "beopmu", "rain"} >>,
        \* 서버|백엔드|프로그래밍|공정|라인|설비|법무|회계
      sales |-> << {"gaebalja", "beopmu", "rain", "enjinieo"} >>,
        \* 개발자|엔지니어|프로그래머|공정|라인|설비|법무|회계
      cs |-> << {"gaebalja", "beopmu", "rain", "enjinieo"} >>,
        \* 개발자|엔지니어|프로그래머|마케터|브랜딩|법무|공정|라인|설비
      hr |-> << {"gaebalja", "rain", "enjinieo"} >>,
        \* 개발자|엔지니어|프로그래머|마케터|브랜딩|공정|라인|설비
      legal |-> << {"gaebalja", "rain", "enjinieo"} >>,
        \* 개발자|엔지니어|프로그래머|마케터|브랜딩|공정|라인|설비
      logistics |-> << {"gaebalja", "beopmu", "enjinieo"} >>,
        \* 개발자|엔지니어(?!\s*설비)|프로그래머|브랜딩|법무|회계|디자인
      manufacturing |-> << {"yeongeop", "beopmu"} >>,
        \* 마케터|브랜딩|영업|세일즈|법무|회계|디자인|광고
      strategy_exec |-> << {"yeongsangpyeonjip", "yutubeu"} >>,
        \* 영상\s*편집|유튜브|퍼포먼스\s*마케터
      video_editing |-> << {"gaebalja", "beopmu", "rain", "enjinieo"} >> ]
        \* 개발자|엔지니어|서버|공정|라인|설비|법무|회계

\* PRIORITY without the buckets after "hr"
PRIORITYUntilHr ==
    << "security", "backend", "frontend", "data", "ai_ml",
       "manufacturing", "logistics",
       "design", "marketing", "sales", "cs", "hr" >>

PRIORITY ==
    << "security", "backend", "frontend", "data", "ai_ml",
       "manufacturing", "logistics",
       "design", "marketing", "sales", "cs", "hr", "legal",
       "video_editing", "product", "strategy_exec" >>

TITLE_RULES == <<
  [bucket |-> "design", patterns |-> <<
      {"dijaineo"},   \* 디자이너
      {},   \* designer
      {},   \* \b2d\b|2d\s*디자이너
      {},   \* ui[,/\s]*gui\s*디자이너|ui\s*디자이너
      {},   \* ux\s*디자이너|\bux\b\s*디자이너
      {},   \* 웹\s*디자이너|그래픽\s*디자이너|bi/bx\s*디자이너|브랜드\s*디자이너
      {},   \* 제품\s*디자이너|산업\s*디자이너
      {}    \* 공간\s*디자이너|인테리어\s*디자이너|출판[,\s]*편집\s*디자이너
  >>],
  [bucket |-> "security", patterns |-> <<
      {"security"},   \* 보안\s*엔지니어|정보보호|security
      {}    \* 시스템.*관리자|네트워크\s*관리자|\bsre\b|\bsoc\b|\bsiem\b|...
  >>],
  [bucket |-> "product", patterns |-> <<
      {"seobiseugihoek"},   \* pm·?po|\bpo\b|product\s*(manager|owner)|프로덕트\s*매니저|서비스\s*기획
      {},   \* 전략\s*기획자?|사업개발|biz\s*dev|\bbd\b
      {},   \* 서비스\s*운영\s*매니저|프로덕트\s*운영\s*매니저
      {}    \* 교육\s*기획|교재
  >>],
  [bucket |-> "marketing", patterns |-> <<
      {"beuraendeu", "maketing"},   \* \b마케터\b|마케팅|브랜드|콘텐츠\s*마케터|퍼포먼스\s*마케터|\bbtl\b|\bpr\b|홍보
      {},   \* 글로벌\s*마케팅|소셜\s*마케터|키워드\s*광고
      {}    \* 통[·\s]*번역|locali[sz]ation|로컬라이제이션
  >>],
  [bucket |-> "sales", patterns |-> <<
      {"yeongeop"},   \* 영업|세일즈|account\s*executive|대면\s*영업
      {}    \* key\s*account|주요고객사\s*담당자|\bkam\b|유통\s*관리자|리테일\s*md|매장\s*(관리자|점원)|기술영업|해외영업
  >>],
  [bucket |-> "cs", patterns |-> <<
      {"chongmu"},   \* \bcs\b|고객성공|customer\s*success|고객\s*응대|voc|콜\s*센터|서비스\s*운영|운영\s*매니저|오피스\s*관리|총무|유지보수\s*관리자
      {}    \* cs\s*운영\s*매니저|고객\s*운영\s*매니저
  >>],
  [bucket |-> "manufacturing", patterns |-> <<
      {"qa"},   \* 품질\s*관리자|qa|qc|검사|inspec|quality
      {"rain"}  \* 생산|제조|공정|라인|설비\s*엔지니어|장비\s*엔지니어|시운전\s*엔지니어|현장\s*소장
  >>],
  [bucket |-> "legal", patterns |-> <<
      {"beopmu"}   \* 법무|특허|compliance|준법|계약|라이(?:센|선)스\s*관리자|\blicense\b
  >>],
  [bucket |-> "logistics", patterns |-> <<
      {"mullyu"}   \* 물류|입·출고|배송|무역\s*사무|수출입|현장\s*소장|구매\s*담당|생산\s*관리자|자재관리
  >>],
  [bucket |-> "hr", patterns |-> <<
      {"insa"}   \* 인사|리크루터|헤드헌터|\bhrbp\b|\bhrd\b|평가·보상|회계|경리|재무|자금
  >>],
  [bucket |-> "strategy_exec", patterns |-> <<
      {},   \* \bcio\b|chief\s*information\s*officer
      {},   \* \bceo\b|chief\s*executive\s*officer
      {},   \* \bcto\b|chief\s*technology\s*officer
      {"keonseolteonteu"}   \* 컨설턴트
  >>],
  [bucket |-> "video_editing", patterns |-> <<
      {"yeongsangpyeonjip"},   \* 영상\s*편집|video\s*editing|video\s*editor|동영상\s*편집
      {},   \* 영상\s*제작|video\s*production|촬영\s*및\s*편집
      {},   \* 모션\s*그래픽|motion\s*graphics?|영상\s*그래픽
      {},   \* 프리미어\s*프로|after\s*effects?|프리미어\s*에프터이펙트
      {}    \* 유튜브\s*영상|youtube\s*video
  >>],
  [bucket |-> "data", patterns |-> <<
      {"kafka"},   \* 데이터\s*엔지니어|data\s*engineer|빅데이터\s*엔지니어|\bdba\b|etl|spark|hadoop|airflow|kafka
      {},   \* 데이터\s*분석가|data\s*analyst
      {}    \* 데이터\s*사이언티스트|data\s*scientist
  >>],
  [bucket |-> "ai_ml", patterns |-> <<
      {"meosinreoning"},   \* 머신러닝|machine\s*learning|\bml\b|딥러닝|deep\s*learning
      {}    \* \bnlp\b|computer\s*vision|recommendation|mle
  >>],
  [bucket |-> "frontend", patterns |-> <<
      {},   \* 프론트\s*(엔드)?|\bfrontend\b
      {},   \* 웹\s*퍼블리셔|웹\s*퍼블리싱
      {"react"},   \* (react|vue|svelte)(?!\s*native)
      {},   \* next\.js\b|nuxt\.js\b
      {},   \* (typescript|ts)\b(?=.*\b(react|vue|next|spa|dom|브라우저)\b)
      {}    \* ui\s*개발자(?=.*\b(react|vue|spa|dom|프론트)\b)
  >>],
  [bucket |-> "backend", patterns |-> <<
      {"baegendeu"},   \* 백엔드|\bbackend\b|서버\s*개발자|\bjava\b|\bspring\b|node\.js|...|자바
      {}    \* c\+\+|c/c\+\+|임베디드|embedded|erp|sap|oracle
  >>]
>>

BODY_RULES == <<
  [bucket |-> "security", patterns |-> <<
      {"security"}   \* 보안\s*엔지니어|정보보호|security|\bsre\b|\bsoc\b|\bsiem\b
  >>],
  [bucket |-> "design", patterns |-> <<
      {"ux"}   \* \bux\b|ux\s*디자이너|ui[,/\s]*gui\s*디자이너|ui\s*디자이너|그래픽\s*디자이너|\b(bi|bx)\b\s*디자이너|브랜딩|웹\s*디자이너|제품\s*디자이너|산업\s*디자이너
  >>],
  [bucket |-> "product", patterns |-> <<
      {"pm", "seobiseugihoek"}   \* \bpm\b|product\s*(manager|owner)|프로덕트\s*매니저|서비스\s*기획|전략\s*기획|사업개발|교육\s*기획|교재|운영\s*매니저
  >>],
  [bucket |-> "marketing", patterns |-> <<
      {"beuraendeu", "maketing"}   \* 마케터|마케팅|브랜드|콘텐츠\s*마케터|퍼포먼스\s*마케터|리테일\s*md|\bpr\b|홍보|로컬라이제이션|키워드\s*광고|\bbtl\b
  >>],
  [bucket |-> "sales", patterns |-> <<
      {"yeongeop"}   \* 영업|세일즈|account\s*executive|key\s*account|\bkam\b|유통\s*관리자|매장\s*(관리자|점원)|기술영업|해외영업
  >>],
  [bucket |-> "cs", patterns |-> <<
      {"chongmu"}   \* \bcs\b|customer\s*success|고객\s*응대|voc|콜\s*센터|서비스\s*운영|(cs|고객)\s*운영\s*매니저|오피스\s*관리|총무|유지보수\s*관리자
  >>],
  [bucket |-> "legal", patterns |-> <<
      {"beopmu"}   \* 법무|특허|compliance|준법|계약|라이(?:센|선)스
  >>],
  [bucket |-> "logistics", patterns |-> <<
      {"mullyu"}   \* 물류|입·출고|배송|무역\s*사무|수출입|현장\s*소장|구매\s*담당|생산\s*관리자|자재관리
  >>],
  [bucket |-> "hr", patterns |-> <<
      {"insa"}   \* 인사|리크루터|헤드헌터|\bhrbp\b|\bhrd\b|평가·보상|회계|경리|재무|자금
  >>],
  [bucket |-> "manufacturing", patterns |-> <<
      {"rain", "qa"}   \* 테스트\s*엔지니어|품질\s*관리자|qa|qc|검사|inspec|quality|생산|제조|공정|라인|설비\s*엔지니어|장비\s*엔지니어|시운전\s*엔지니어|현장\s*소장
  >>],
  [bucket |-> "strategy_exec", patterns |-> <<
      {"keonseolteonteu"}   \* \b(cio|ceo|cto)\b|chief\s*(information|executive|technology)\s*officer|컨설턴트
  >>],
  [bucket |-> "video_editing", patterns |-> <<
      {"yeongsangpyeonjip"}   \* 영상\s*편집|video\s*editing|video\s*editor|동영상\s*편집|영상\s*제작|...|youtube\s*video
  >>],
  [bucket |-> "data", patterns |-> <<
      {"kafka"}   \* 데이터\s*엔지니어|data\s*engineer|빅데이터|\bdba\b|etl|spark|hadoop|airflow|kafka|데이터\s*분석가|data\s*analyst|데이터\s*사이언티스트|data\s*scientist
  >>],
  [bucket |-> "ai_ml", patterns |-> <<
      {"meosinreoning"}   \* 머신러닝|machine\s*learning|\bml\b|딥러닝|deep\s*learning|\bnlp\b|computer\s*vision|recommendation|mle
  >>],
  [bucket |-> "frontend", patterns |-> <<
      {"react"}   \* 프론트엔드|\bfrontend\b|웹\s*퍼블리셔|\bpublisher\b|ui\s*개발자|react|vue|typescript|next\.js|svelte|모바일|ios|android|react\s*native|flutter|unity|unreal|게임\s*클라이언트
  >>],
  [bucket |-> "backend", patterns |-> <<
      {"baegendeu"}   \* 백엔드|backend|서버\s*개발자|java|spring|node\.js|php|\.net|golang|\bgo\b|django|fastapi|nestjs|msa|microservices|c\+\+|임베디드|embedded|erp|sap|oracle
  >>]
>>

---------------------------------------------------------------------------
(* match_by_rules *)

\* any(re.search(p, s, FLAGS) for p in patterns)
AnySearch(patterns, s) == \E j \in DOMAIN patterns : Search(patterns[j], s)

\* BODY_DENY.get(bkt, [])
DenyPatterns(bkt) == IF bkt \in DOMAIN BODY_DENY THEN BODY_DENY[bkt] ELSE <<>>

\* TitlePass with the loop keeping the last rule found instead of returning
\* at the first
TitlePassLastRule(t) ==
    LET RECURSIVE From(_, _)
        From(i, found) ==
            IF i > Len(TITLE_RULES) THEN found
            ELSE IF AnySearch(TITLE_RULES[i].patterns, t)
                 THEN From(i + 1, TITLE_RULES[i].bucket)
                 ELSE From(i + 1, found)
    IN From(1, NoBucket)

\* the title loop: the bucket of the first rule, in table order, with a
\* pattern found in t; NoBucket when the loop ends without a return
TitlePass(t) ==
    LET RECURSIVE From(_)
        From(i) ==
            IF i > Len(TITLE_RULES) THEN NoBucket
            ELSE IF AnySearch(TITLE_RULES[i].patterns, t)
                 THEN TITLE_RULES[i].bucket
                 ELSE From(i + 1)
    IN From(1)

\* candidates: the buckets of the body rules found in b, in table order
Candidates(b) ==
    LET RECURSIVE From(_)
        From(i) ==
            IF i > Len(BODY_RULES) THEN <<>>
            ELSE IF AnySearch(BODY_RULES[i].patterns, b)
                 THEN <<BODY_RULES[i].bucket>> \o From(i + 1)
                 ELSE From(i + 1)
    IN From(1)

\* DenyFilter with the deny patterns never consulted
DenyFilterKeepsAll(cands, b) == cands

\* filtered: the candidates without those a deny pattern of theirs hits in b
DenyFilter(cands, b) ==
    LET keep(bkt) == ~AnySearch(DenyPatterns(bkt), b)
    IN SelectSeq(cands, keep)

\* filtered, after "if not filtered: filtered = candidates"
Filtered(cands, b) ==
    IF DenyFilter(cands, b) = <<>> THEN cands ELSE DenyFilter(cands, b)

\* the PRIORITY loop, then "return filtered[0]"
PriorityPick(filtered) ==
    LET InSeq(x) == \E k \in DOMAIN filtered : filtered[k] = x
        RECURSIVE From(_)
        From(i) ==
            IF i > Len(PRIORITY) THEN filtered[1]
            ELSE IF InSeq(PRIORITY[i]) THEN PRIORITY[i]
                 ELSE From(i + 1)
    IN From(1)

\* BodyPass without "if not filtered: filtered = candidates": no decision
\* when every candidate is denied
BodyPassNoFallback(b) ==
    IF Candidates(b) = <<>> \/ DenyFilter(Candidates(b), b) = <<>> THEN NoBucket
    ELSE PriorityPick(DenyFilter(Candidates(b), b))

\* the body pass of match_by_rules
BodyPass(b) ==
    IF Candidates(b) = <<>> THEN NoBucket
    ELSE PriorityPick(Filtered(Candidates(b), b))

\* match_by_rules with the deny patterns searched in the title and the body
match_by_rulesDenyOnTitle(ti, bo) ==
    LET t == Lower(OrEmpty(ti))
        b == Lower(OrEmpty(bo))
    IN IF TitlePass(t) # NoBucket THEN TitlePass(t)
       ELSE IF Candidates(b) = <<>> THEN NoBucket
       ELSE PriorityPick(Filtered(Candidates(b), t \o <<NL>> \o b))

\* match_by_rules with the body pass left out
match_by_rulesTitleOnly(ti, bo) == TitlePass(Lower(OrEmpty(ti)))

match_by_rules(ti, bo) ==
    LET t == Lower(OrEmpty(ti))
        b == Lower(OrEmpty(bo))
    IN IF TitlePass(t) # NoBucket THEN TitlePass(t) ELSE BodyPass(b)

---------------------------------------------------------------------------
(* classify_doc *)

\* _get(doc, path)
RECURSIVE GetPath(_, _)
GetPath(x, path) ==
    IF path = <<>> THEN x
    ELSE IF x.k # "dict" THEN None
    ELSE GetPath(DictGet(x, Head(path)), Tail(path))

\* the slices of extract_title and gather_body
TitleMaxChars == 80
BodyMaxChars == 10000

\* the paths extract_title tries, and the fields gather_body joins, in order
TitlePaths == << <<"job">>, <<"position", "job">>, <<"detail", "position", "job">> >>
BodyPaths == << <<"detail", "intro">>, <<"detail", "main_tasks">>, <<"detail", "requirements">> >>

\* the fallback of extract_title: the first line of the stripped intro
IntroTitle(d) ==
    LET intro == GetPath(d, <<"detail", "intro">>)
    IN IF intro.k = "str" /\ Truthy(StripM(intro))
       THEN Str(Take(FirstLine(StripM(intro).s).s, TitleMaxChars))
       ELSE Str(<<>>)

\* extract_title taking any truthy value of a job field as the title, without
\* the isinstance tests
extract_titleCoerces(d) ==
    LET RECURSIVE From(_)
        From(i) ==
            IF i > Len(TitlePaths) THEN IntroTitle(d)
            ELSE LET v == GetPath(d, TitlePaths[i])
                 IN IF v.k = "list" /\ Truthy(v) THEN PyStr(Index0(v))
                    ELSE IF v.k \in {"str", "num"} /\ Truthy(v) THEN PyStr(v)
                    ELSE From(i + 1)
    IN From(1)

extract_title(d) ==
    LET RECURSIVE From(_)
        From(i) ==
            IF i > Len(TitlePaths) THEN IntroTitle(d)
            ELSE LET v == GetPath(d, TitlePaths[i])
                 IN IF v.k = "list" /\ Truthy(v) THEN PyStr(Index0(v))
                    ELSE IF v.k = "str" /\ Truthy(StripM(v)) THEN v
                    ELSE From(i + 1)
    IN From(1)

\* gather_body without the slice body[:10000]
gather_bodyUncut(d) ==
    LET RECURSIVE Buf(_)
        Buf(i) ==
            IF i > Len(BodyPaths) THEN <<>>
            ELSE LET v == GetPath(d, BodyPaths[i])
                 IN IF v.k = "str" /\ Truthy(StripM(v))
                    THEN <<v.s>> \o Buf(i + 1)
                    ELSE Buf(i + 1)
    IN Str(Lower(JoinLines(Buf(1))))

gather_body(d) ==
    LET RECURSIVE Buf(_)
        Buf(i) ==
            IF i > Len(BodyPaths) THEN <<>>
            ELSE LET v == GetPath(d, BodyPaths[i])
                 IN IF v.k = "str" /\ Truthy(StripM(v))
                    THEN <<v.s>> \o Buf(i + 1)
                    ELSE Buf(i + 1)
    IN Str(Take(Lower(JoinLines(Buf(1))), BodyMaxChars))

\* (title or "(no-title)")
NoTitle == Str(<<Word("(no-title)", 10)>>)

\* classify_doc without the default: the bucket is what match_by_rules returns
classify_docNoDefault(d) ==
    LET t == extract_title(d)
        b == gather_body(d)
    IN IF t.k = "raise" THEN t
       ELSE IF b.k = "raise" THEN b
       ELSE [k |-> "tuple", rid |-> PyStr(DictGet(d, "_id")),
             title |-> IF Truthy(t) THEN t ELSE NoTitle,
             bucket |-> match_by_rules(t, b)]

\* classify_doc: the triple (rid, title, bucket), or the exception that
\* leaves extract_title or gather_body
classify_doc(d) ==
    LET rid == PyStr(DictGet(d, "_id"))
        t == extract_title(d)
        b == gather_body(d)
        m == match_by_rules(t, b)
    IN IF t.k = "raise" THEN t
       ELSE IF b.k = "raise" THEN b
       ELSE [k |-> "tuple", rid |-> rid,
             title |-> IF Truthy(t) THEN t ELSE NoTitle,
             bucket |-> IF m = NoBucket THEN "etc" ELSE m]

---------------------------------------------------------------------------
(* Inputs *)

\* words joined by single spaces
RECURSIVE JoinWords(_)
JoinWords(ws) ==
    IF ws = <<>> THEN <<>>
    ELSE IF Len(ws) = 1 THEN <<W(ws[1])>>
    ELSE <<W(ws[1]), SP>> \o JoinWords(Tail(ws))

\* sequences over S of length at most n
SeqsUpTo(S, n) == UNION { [1..k -> S] : k \in 0..n }

\* bounds of the title and body drawn for match_by_rules, in words
MaxTitleWords == 2
MaxBodyWords == 2

TitleWords == {"dijaineo", "beuraendeu", "Security", "baegendeu", "gaebalja"}
BodyWords == {"UX", "beuraendeu", "maketing", "gaebalja", "baegendeu",
              "meosinreoning", "beopmu", "rain", "chaeyong"}

Titles == {None} \cup { Str(JoinWords(ws)) : ws \in SeqsUpTo(TitleWords, MaxTitleWords) }
Bodies == {None} \cup { Str(JoinWords(ws)) : ws \in SeqsUpTo(BodyWords, MaxBodyWords) }

\* a key left out of a dict under construction
Absent == [k |-> "absent"]

\* the dict of the <<key, value>> pairs kv, without the keys given as Absent
MkDict(kv) ==
    Dict([key \in { p[1] : p \in { q \in kv : q[2] # Absent } }
            |-> (CHOOSE p \in kv : p[1] = key)[2]])

\* one word as a str
S1(w) == Str(<<W(w)>>)

\* the values drawn for each field of a record: missing, null, empty, blank,
\* of another type than the code reads, and texts over the vocabulary
IdVals == {Absent, Num(7)}
JobVals ==
    { Absent, None, Num(7), List(<<S1("maketing")>>), List(<<Str(<<>>)>>),
      Str(<<SP>>), S1("dijaineo") }
PositionVals ==
    { Absent, Num(7), Dict(<<>>), MkDict({<<"job", S1("Security")>>}),
      MkDict({<<"job", List(<<None>>)>>}) }
DetailPositionVals ==
    { Absent, S1("rain"), MkDict({<<"job", List(<<>>)>>}),
      MkDict({<<"job", S1("baegendeu")>>}) }
IntroVals ==
    { Absent, None, List(<<S1("UX")>>), Str(<<>>), Str(<<SP, NL>>),
      Str(<<SP, W("UX"), NL, W("maketing")>>),
      Str(<<Pad(TitleMaxChars - 2), SP, W("dijaineo")>>) }
MainTasksVals ==
    { Absent, Dict(<<>>), S1("gaebalja"), S1("meosinreoning"),
      Str(<<Pad(BodyMaxChars - 4), SP, W("meosinreoning")>>) }
RequirementsVals == { Absent, Num(0), S1("beopmu") }
DetailVals ==
    { Absent, None, List(<<>>) } \cup
    { MkDict({<<"position", p>>, <<"intro", i>>, <<"main_tasks", m>>,
              <<"requirements", r>>}) :
        p \in DetailPositionVals, i \in IntroVals, m \in MainTasksVals,
        r \in RequirementsVals }

Docs ==
    { MkDict({<<"_id", id>>, <<"job", j>>, <<"position", p>>, <<"detail", d>>}) :
        id \in IdVals, j \in JobVals, p \in PositionVals, d \in DetailVals }

---------------------------------------------------------------------------
(* Specification of match_by_rules over drawn titles and bodies *)

\* the variables of match_by_rules while it is not the call modelled
IdleRules == title = None /\ body = None /\ ret = NoBucket

\* the variables of classify_doc while it is not the call modelled
IdleDoc == doc = None /\ result = None

\* the variable of extract_sido while it is not the call modelled
IdleSido == full_location = None

\* the variables of the crawlers while no crawl is modelled
IdleJk ==
    /\ max_companies = 0 /\ max_essays_per_company = 0
    /\ crawled_companies = 0 /\ crawled_passassay_urls = {}
    /\ company_pages = <<>> /\ essay_pages = <<>> /\ seen = {}
    /\ essays = <<>> /\ log0 = <<>>

IdleStore ==
    /\ wanted_job_postings = <<>> /\ master_job_postings = <<>>
    /\ cover_letters = <<>> /\ company_ids = <<>> /\ items = {}
    /\ clock = 0 /\ called = <<>> /\ returned = <<>>

IdleCrawl ==
    /\ mode = "" /\ max_jobs = 0 /\ collected_count = 0 /\ crawled_urls = {}
    /\ listing = <<>> /\ log = <<>> /\ scheduled = {} /\ issued = <<>>
    /\ IdleJk
    /\ IdleStore

\* the variables of chunk_by_paragraph_blocks while it is not the call modelled
IdleChunk ==
    /\ blocks = <<>> /\ max_chars = 0 /\ overlap_chars = 0 /\ bi = 0
    /\ cur = <<>> /\ chunks = <<>> /\ pre = <<>> /\ curPre = 0

\* the variables of main while it is not the call modelled
IdleMain ==
    /\ col = <<>> /\ save = FALSE /\ limit = 0 /\ mi = 0
    /\ results = <<>> /\ report = None
    /\ exc = None /\ run = 0 /\ col0 = <<>> /\ colPrev = <<>>

InitRules ==
    /\ pc = "call"
    /\ title \in Titles
    /\ body \in Bodies
    /\ ret = NoBucket
    /\ IdleDoc
    /\ IdleChunk
    /\ IdleMain
    /\ IdleSido
    /\ IdleCrawl

MatchByRules ==
    /\ pc = "call"
    /\ doc = None
    /\ ret' = match_by_rules(title, body)
    /\ pc' = "done"
    /\ UNCHANGED <<crawlVars, full_location, title, body, docVars, chunkVars, mainVars>>

NextRules == MatchByRules

SpecRules == InitRules /\ [][NextRules]_vars

---------------------------------------------------------------------------
(* Specification of classify_doc over drawn records *)

InitDoc ==
    /\ pc = "call"
    /\ doc \in Docs
    /\ result = None
    /\ IdleRules
    /\ IdleChunk
    /\ IdleMain
    /\ IdleSido
    /\ IdleCrawl

ClassifyDoc ==
    /\ pc = "call"
    /\ doc # None
    /\ result' = classify_doc(doc)
    /\ pc' = "done"
    /\ UNCHANGED <<crawlVars, full_location, rulesVars, doc, chunkVars, mainVars>>

NextDoc == ClassifyDoc

SpecDoc == InitDoc /\ [][NextDoc]_vars

---------------------------------------------------------------------------
(* chunk_by_paragraph_blocks.  Here a str is the sequence of its characters. *)

\* "\n\n"
Sep == <<"\n", "\n">>

\* ("\n\n" if c else "")
SepIf(c) == IF c # <<>> THEN Sep ELSE <<>>

\* add_len = (2 if cur else 0) + len(b)
AddLen(c, b) == (IF c # <<>> THEN 2 ELSE 0) + Len(b)

\* the test that appends b to cur, on the buffer alone
FitsBufferOnly(c, b, m) == Len(c) <= m

\* len(cur) + add_len <= max_chars
Fits(c, b, m) == Len(c) + AddLen(c, b) <= m

\* c[-n:] for n > 0
LastChars(c, n) == IF n >= Len(c) THEN c ELSE SubSeq(c, Len(c) - n + 1, Len(c))

\* the tail taken from the front of the closed chunk
OverlapTailFront(c, ov) == IF ov > 0 THEN SubSeq(c, 1, IF ov >= Len(c) THEN Len(c) ELSE ov) ELSE <<>>

\* tail = cur[-overlap_chars:] if overlap_chars > 0 else ""
OverlapTail(c, ov) == IF ov > 0 THEN LastChars(c, ov) ELSE <<>>

\* the loop is at block b
AtBlock == pc = "loop" /\ bi <= Len(blocks)

\* cur = (cur + ("\n\n" if cur else "") + b)
AppendBlock ==
    /\ AtBlock
    /\ Fits(cur, blocks[bi], max_chars)
    /\ cur' = cur \o SepIf(cur) \o blocks[bi]
    /\ bi' = bi + 1
    /\ UNCHANGED <<pc, crawlVars, full_location, rulesVars, docVars, mainVars, blocks, max_chars,
                   overlap_chars, chunks, pre, curPre>>

\* chunks.append(cur); cur = tail + ("\n\n" if tail else "") + b
CloseWithOverlap ==
    /\ AtBlock
    /\ ~Fits(cur, blocks[bi], max_chars)
    /\ cur # <<>>
    /\ LET tail == OverlapTail(cur, overlap_chars)
       IN /\ chunks' = Append(chunks, cur)
          /\ pre' = Append(pre, curPre)
          /\ cur' = tail \o SepIf(tail) \o blocks[bi]
          /\ curPre' = Len(tail \o SepIf(tail))
    /\ bi' = bi + 1
    /\ UNCHANGED <<pc, crawlVars, full_location, rulesVars, docVars, mainVars, blocks, max_chars,
                   overlap_chars>>

\* chunks.append(b); cur = ""
EmitAlone ==
    /\ AtBlock
    /\ ~Fits(cur, blocks[bi], max_chars)
    /\ cur = <<>>
    /\ chunks' = Append(chunks, blocks[bi])
    /\ pre' = Append(pre, 0)
    /\ cur' = <<>>
    /\ curPre' = 0
    /\ bi' = bi + 1
    /\ UNCHANGED <<pc, crawlVars, full_location, rulesVars, docVars, mainVars, blocks, max_chars,
                   overlap_chars>>

\* after the loop: if cur: chunks.append(cur); return chunks
ReturnChunks ==
    /\ pc = "loop"
    /\ bi > Len(blocks)
    /\ IF cur # <<>>
       THEN chunks' = Append(chunks, cur) /\ pre' = Append(pre, curPre)
       ELSE UNCHANGED <<chunks, pre>>
    /\ pc' = "done"
    /\ UNCHANGED <<crawlVars, full_location, rulesVars, docVars, mainVars, blocks, max_chars,
                   overlap_chars, bi, cur, curPre>>

\* bounds of the arguments drawn for chunk_by_paragraph_blocks
MaxBlocks == 3
MaxBlockLen == 3
MaxMaxChars == 5
MaxOverlap == 2

\* block i is made of the i-th letter, so that a character of a chunk tells
\* the block it comes from; no block holds a line feed
Letters == <<"a", "b", "c", "d", "e", "f">>
BlockOf(i, n) == [j \in 1..n |-> Letters[i]]
BlockSeqs ==
    UNION { { [i \in 1..k |-> BlockOf(i, lens[i])] : lens \in [1..k -> 0..MaxBlockLen] } :
            k \in 0..MaxBlocks }

InitChunk ==
    /\ pc = "loop"
    /\ blocks \in BlockSeqs
    /\ max_chars \in 1..MaxMaxChars
    /\ overlap_chars \in 0..MaxOverlap
    /\ bi = 1
    /\ cur = <<>> /\ chunks = <<>> /\ pre = <<>> /\ curPre = 0
    /\ IdleRules
    /\ IdleDoc
    /\ IdleMain
    /\ IdleSido
    /\ IdleCrawl

NextChunk == AppendBlock \/ CloseWithOverlap \/ EmitAlone \/ ReturnChunks

SpecChunk == InitChunk /\ [][NextChunk]_vars

---------------------------------------------------------------------------
(* main: the batch run over master_job_postings *)

\* a str holding a bucket label, as stored in a document
Label(b) == [k |-> "label", b |-> b]

\* (a or b)
PyOr(a, b) == IF Truthy(a) THEN a ELSE b

\* BIN, and the 10_000 of to_man
SalaryBin == 2000000
ManWon == 10000

\* to_man(x) = int(round(x / 10_000)): the nearest integer, a tie to the even one
to_man(x) ==
    LET q == x \div ManWon
        r == x % ManWon
    IN IF 2 * r < ManWon THEN q
       ELSE IF 2 * r > ManWon THEN q + 1
       ELSE IF q % 2 = 0 THEN q ELSE q + 1

\* a group of f"{n:,}" without its leading zeros
Pad3NoZeros(n) == ToString(n)

\* f"{n:,}" for n >= 0: the digits in groups of three
Pad3(n) ==
    IF n < 10 THEN "00" \o ToString(n)
    ELSE IF n < 100 THEN "0" \o ToString(n) ELSE ToString(n)
RECURSIVE Commas(_)
Commas(n) ==
    IF n < 1000 THEN ToString(n)
    ELSE Commas(n \div 1000) \o "," \o Pad3(n % 1000)

\* f"{to_man(start):,}man~{to_man(end):,}man", man standing for the one
\* character of the unit
SalaryLabel(start, end) ==
    LET t == Commas(to_man(start)) \o "man~" \o Commas(to_man(end)) \o "man"
    IN Str(<<Word(t, Len(t) - 4)>>)

\* standardize_company_salary: the dict it returns, or the exception of
\* comp.get when company is neither a dict nor falsy
\* isinstance(val, (int, float))
IsNumber(val) == val.k \in {"num", "float"}

\* val <= 0 and int(val) for a number: int() cuts a float towards zero
NotPositive(val) == IF val.k = "num" THEN val.v <= 0 ELSE val.floor < 0
PyInt(val) ==
    IF val.k = "num" THEN val.v
    ELSE IF val.floor >= 0 THEN val.floor ELSE val.floor + 1

\* the bin of standardize_company_salary taken to the nearest multiple of BIN
standardize_company_salaryRounds(d) ==
    LET comp == PyOr(DictGet(d, "company"), Dict(<<>>))
    IN IF comp.k # "dict" THEN Raise("AttributeError")
       ELSE LET val == DictGet(comp, "avgSalary")
            IN IF ~IsNumber(val) \/ NotPositive(val) THEN Dict(<<>>)
               ELSE LET start == ((2 * PyInt(val) + SalaryBin) \div (2 * SalaryBin))
                                     * SalaryBin
                    IN Dict([salary_bucket_2m_label |->
                                 SalaryLabel(start, start + SalaryBin)])

standardize_company_salary(d) ==
    LET comp == PyOr(DictGet(d, "company"), Dict(<<>>))
    IN IF comp.k # "dict" THEN Raise("AttributeError")
       ELSE LET val == DictGet(comp, "avgSalary")
            IN IF ~IsNumber(val) \/ NotPositive(val) THEN Dict(<<>>)
               ELSE LET start == (PyInt(val) \div SalaryBin) * SalaryBin
                    IN Dict([salary_bucket_2m_label |->
                                 SalaryLabel(start, start + SalaryBin)])

\* the same with the top level value read from the other of location and
\* district
TopOrAddressSwapped(d, key) ==
    LET top == DictGet(d, IF key = "location" THEN "district" ELSE "location")
        addr == PyOr(DictGet(d, "address"), Dict(<<>>))
    IN IF Truthy(top) THEN top
       ELSE IF addr.k # "dict" THEN Raise("AttributeError")
       ELSE DictGet(addr, key)

\* (doc.get(key) or addr.get(key)) with addr = doc.get("address") or {}
TopOrAddress(d, key) ==
    LET top == DictGet(d, key)
        addr == PyOr(DictGet(d, "address"), Dict(<<>>))
    IN IF Truthy(top) THEN top
       ELSE IF addr.k # "dict" THEN Raise("AttributeError")
       ELSE DictGet(addr, key)

\* the entry of to_set for location or district: none when the value is
\* falsy, the stripped value otherwise, an exception where it has no strip()
Synced(d, key) ==
    LET v == TopOrAddress(d, key)
    IN IF v.k = "raise" THEN v
       ELSE IF ~Truthy(v) THEN Dict(<<>>)
       ELSE IF v.k # "str" THEN Raise("AttributeError")
       ELSE Dict([x \in {key} |-> StripM(v)])

\* to_set of the save branch
to_set(d, bucket) ==
    LET lo == Synced(d, "location")
        di == Synced(d, "district")
        sal == standardize_company_salary(d)
    IN IF lo.k = "raise" THEN lo
       ELSE IF di.k = "raise" THEN di
       ELSE IF sal.k = "raise" THEN sal
       ELSE Dict(sal.f @@ di.f @@ lo.f @@ [bucket |-> Label(bucket)])

\* update_one({"_id": ...}, {"$set": f}) on the stored document d
UpdateSet(d, f) == Dict(f @@ d.f)

\* the projection of col.find: the keys of d that are asked for
Project(d, keys) == Dict([x \in DOMAIN d.f \cap keys |-> d.f[x]])
ClassifyKeys ==
    {"_id", "job", "position", "detail", "address", "location", "district",
     "company", "avgSalary"}

\* {path: {"$type": "string"}}
IsTypeString(d, path) == GetPath(d, path).k = "str"

\* the runs of the script over one store
MaxRuns == 2

\* the exception of a write the store refuses or cannot be reached for
WriteError == Raise("PyMongoError")

\* one turn of a backfill loop: copies address.<key>, stripped, to the top
\* level when it is a str that is not blank; the write may fail, and nothing
\* in main catches the exception
Backfill(key) ==
    /\ mi <= Len(col)
    /\ LET d == col[mi]
           v == GetPath(d, <<"address", key>>)
       IN IF IsTypeString(d, <<"address", key>>) /\ Truthy(StripM(v))
          THEN \E ok \in BOOLEAN :
                  IF ok
                  THEN /\ col' = [col EXCEPT
                                     ![mi] = UpdateSet(d, [x \in {key} |-> StripM(v)])]
                       /\ mi' = mi + 1
                       /\ UNCHANGED <<pc, exc>>
                  ELSE /\ pc' = "raised"
                       /\ exc' = WriteError
                       /\ UNCHANGED <<col, mi>>
          ELSE mi' = mi + 1 /\ UNCHANGED <<pc, col, exc>>
    /\ UNCHANGED <<crawlVars, full_location, rulesVars, docVars, chunkVars, save, limit, results, report,
                   run, col0, colPrev>>

BackfillLocation == pc = "backfill_location" /\ Backfill("location")

BackfillDistrict == pc = "backfill_district" /\ Backfill("district")

\* the first loop is over: the second find
StartDistrict ==
    /\ pc = "backfill_location"
    /\ mi > Len(col)
    /\ pc' = "backfill_district"
    /\ mi' = 1
    /\ UNCHANGED <<crawlVars, full_location, rulesVars, docVars, chunkVars, col, save, limit, results, report,
                   exc, run, col0, colPrev>>

\* the second loop is over: the find of the classification, results = []
StartClassify ==
    /\ pc = "backfill_district"
    /\ mi > Len(col)
    /\ pc' = "classify"
    /\ mi' = 1
    /\ results' = <<>>
    /\ UNCHANGED <<crawlVars, full_location, rulesVars, docVars, chunkVars, col, save, limit, report,
                   exc, run, col0, colPrev>>

\* the cursor of .limit(limit or 0) has a document left
CursorHasNext == mi <= Len(col) /\ (limit = 0 \/ mi <= limit)

\* one turn of the classification loop
ClassifyRecord ==
    /\ pc = "classify"
    /\ CursorHasNext
    /\ LET d == Project(col[mi], ClassifyKeys)
           r == classify_doc(d)
       IN IF r.k = "raise"
          THEN pc' = "raised" /\ exc' = r /\ UNCHANGED <<col, mi, results>>
          ELSE /\ results' = Append(results, r)
               /\ IF ~save
                  THEN mi' = mi + 1 /\ UNCHANGED <<pc, col, exc>>
                  ELSE LET ts == to_set(d, r.bucket)
                       IN IF ts.k = "raise"
                          THEN pc' = "raised" /\ exc' = ts /\ UNCHANGED <<col, mi>>
                          ELSE \E ok \in BOOLEAN :
                                  IF ok
                                  THEN /\ col' = [col EXCEPT
                                                     ![mi] = UpdateSet(col[mi], ts.f)]
                                       /\ mi' = mi + 1
                                       /\ UNCHANGED <<pc, exc>>
                                  ELSE /\ pc' = "raised"
                                       /\ exc' = WriteError
                                       /\ UNCHANGED <<col, mi>>
    /\ UNCHANGED <<crawlVars, full_location, rulesVars, docVars, chunkVars, save, limit, report, run, col0,
                   colPrev>>

\* the number of results with bucket b
CountBucket(rs, b) == Cardinality({ i \in DOMAIN rs : rs[i].bucket = b })

\* the totals printed after the loop
Report ==
    /\ pc = "classify"
    /\ ~CursorHasNext
    /\ report' = [total |-> Len(results),
                  classified |-> Len(results) - CountBucket(results, "etc"),
                  etc |-> CountBucket(results, "etc")]
    /\ pc' = "done"
    /\ UNCHANGED <<crawlVars, full_location, rulesVars, docVars, chunkVars, col, save, limit, mi, results,
                   exc, run, col0, colPrev>>

\* the script is run again over the store the run before left, with the same
\* arguments
RunAgain ==
    /\ pc = "done"
    /\ run >= 1 /\ run < MaxRuns
    /\ run' = run + 1
    /\ colPrev' = col
    /\ pc' = "backfill_location"
    /\ mi' = 1
    /\ results' = <<>>
    /\ report' = None
    /\ UNCHANGED <<crawlVars, full_location, rulesVars, docVars, chunkVars, col, save, limit, exc, col0>>

\* bounds of the store and of the argument limit drawn for main
MaxRecords == 2
MaxLimit == 1

\* a place name, with and without blanks around it
Place(w) == Str(<<Word(w, 2)>>)
Spaced(w) == Str(<<SP, Word(w, 2), SP>>)

\* the documents drawn for the store, without their _id: a title hit, body
\* hits, no hit, and address, location, district and company present, blank,
\* missing and of other types than main reads
RecordVals ==
    { MkDict({<<"job", Str(JoinWords(<<"baegendeu", "gaebalja">>))>>,
              <<"address", MkDict({<<"location", Spaced("seoul")>>,
                                   <<"district", Place("gangnam")>>})>>,
              <<"company", MkDict({<<"avgSalary", Num(35000000)>>})>>}),
      MkDict({<<"detail", MkDict({<<"main_tasks", S1("meosinreoning")>>})>>,
              <<"location", Place("busan")>>,
              <<"address", MkDict({<<"location", Place("seoul")>>})>>,
              <<"bucket", Label("etc")>>}),
      MkDict({<<"detail", MkDict({<<"main_tasks",
                                    Str(JoinWords(<<"maketing", "gaebalja">>))>>})>>,
              <<"district", Spaced("jung")>>,
              <<"company", MkDict({<<"avgSalary", Num(1999999)>>})>>}),
      MkDict({<<"company", MkDict({<<"avgSalary", Num(0)>>})>>,
              <<"address", MkDict({<<"location", Str(<<SP>>)>>,
                                   <<"district", None>>})>>}),
      MkDict({<<"job", Num(7)>>, <<"address", Place("seoul")>>}),
      MkDict({<<"job", S1("dijaineo")>>, <<"location", Num(7)>>}),
      MkDict({<<"position", MkDict({<<"job", S1("Security")>>})>>,
              <<"company", Place("kmj")>>}),
      MkDict({<<"location", Place("busan")>>, <<"district", Place("jung")>>}) }

\* the stores drawn: document i has _id i
Cols ==
    { [i \in 1..Len(rs) |-> UpdateSet(rs[i], [_id |-> Num(i)])] :
        rs \in SeqsUpTo(RecordVals, MaxRecords) }

InitMain ==
    /\ pc = "backfill_location"
    /\ col \in Cols
    /\ save \in BOOLEAN
    /\ limit \in 0..MaxLimit
    /\ mi = 1
    /\ results = <<>>
    /\ report = None
    /\ exc = None
    /\ run = 1
    /\ col0 = col
    /\ colPrev = <<>>
    /\ IdleRules
    /\ IdleDoc
    /\ IdleChunk
    /\ IdleSido
    /\ IdleCrawl

NextMain ==
    \/ BackfillLocation
    \/ StartDistrict
    \/ BackfillDistrict
    \/ StartClassify
    \/ ClassifyRecord
    \/ Report
    \/ RunAgain

SpecMain == InitMain /\ [][NextMain]_vars

---------------------------------------------------------------------------
(* Specification of standardize_company_salary over drawn records *)

\* the highest bin the drawn salaries reach
MaxBin == 3

\* salaries at the edges of and inside each bin, zero and negative ones
SalaryOffsets == {0, 1, 9999, 10000, 1000000, SalaryBin - 1}
SalaryInts ==
    { b * SalaryBin + o : b \in 0..MaxBin, o \in SalaryOffsets }
        \cup {-1, -SalaryBin} \cup {9999999, 35000000, 1000000000}

\* company.avgSalary: missing, null, of a type that is no number, an int, a
\* float
AvgSalaryVals ==
    { Absent, None, Str(<<Word("35000000", 8)>>), List(<<>>), Dict(<<>>) }
        \cup { Num(v) : v \in SalaryInts } \cup { Flt(v) : v \in SalaryInts }
CompanyVals ==
    { Absent, None, Dict(<<>>) }
        \cup { MkDict({<<"avgSalary", v>>}) : v \in AvgSalaryVals }
SalaryDocs == { MkDict({<<"company", c>>}) : c \in CompanyVals }

InitSalary ==
    /\ pc = "call"
    /\ doc \in SalaryDocs
    /\ result = None
    /\ IdleRules
    /\ IdleChunk
    /\ IdleMain
    /\ IdleSido
    /\ IdleCrawl

StandardizeSalary ==
    /\ pc = "call"
    /\ result' = standardize_company_salary(doc)
    /\ pc' = "done"
    /\ UNCHANGED <<crawlVars, full_location, rulesVars, doc, chunkVars, mainVars>>

NextSalary == StandardizeSalary

SpecSalary == InitSalary /\ [][NextSalary]_vars

---------------------------------------------------------------------------
(* extract_sido.  Here a str is the sequence of its characters, each a      *)
(* token of length 1 named by the romanized syllable: si 시, do 도, gu 구.  *)

\* one character
Ch(c) == Word(c, 1)

\* the length of the leading run of non-whitespace characters of s
RunLen(s) ==
    LET RECURSIVE Upto(_)
        Upto(i) == IF i < Len(s) /\ ~IsSpace(s[i + 1]) THEN Upto(i + 1) ELSE i
    IN Upto(0)

\* str.split(): the whitespace-delimited tokens of s
RECURSIVE Split(_)
Split(s) ==
    LET t == LStrip(s)
    IN IF t = <<>> THEN <<>>
       ELSE <<SubSeq(t, 1, RunLen(t))>> \o Split(SubSeq(t, RunLen(t) + 1, Len(t)))

\* re.match(r"^(\S+?시|\S+?도)", s).group(1), <<>> when there is no match:
\* the first alternative takes the fewest non-whitespace characters, one at
\* least, that a 시 follows; the second is tried only when the first fails
SidoMatch(s) ==
    LET At(c) == { i \in 2..RunLen(s) : s[i].w = c }
        First(S) == CHOOSE i \in S : \A j \in S : i <= j
    IN IF At("si") # {} THEN SubSeq(s, 1, First(At("si")))
       ELSE IF At("do") # {} THEN SubSeq(s, 1, First(At("do")))
       ELSE <<>>

extract_sido(v) ==
    IF ~Truthy(v) THEN Str(<<>>)
    ELSE LET m == SidoMatch(v.s)
             parts == Split(v.s)
         IN IF m # <<>> THEN Str(Strip(m))
            ELSE IF parts = <<>> THEN Raise("IndexError")
            ELSE Str(Strip(parts[1]))

---------------------------------------------------------------------------
(* Specification of extract_sido over drawn strings *)

MaxLocLen == 4

SidoChars == { Ch("si"), Ch("do"), Ch("gu"), SP }

\* every str of at most MaxLocLen characters over SidoChars
LocStrings ==
    { Str(cs) : cs \in UNION { [1..n -> SidoChars] : n \in 0..MaxLocLen } }

InitSido ==
    /\ pc = "call"
    /\ full_location \in LocStrings
    /\ IdleRules
    /\ IdleDoc
    /\ IdleChunk
    /\ IdleMain
    /\ IdleCrawl

ExtractSido ==
    /\ pc = "call"
    /\ full_location # None
    /\ result' = extract_sido(full_location)
    /\ pc' = "done"
    /\ UNCHANGED <<crawlVars, full_location, rulesVars, doc, chunkVars, mainVars>>

NextSido == ExtractSido

SpecSido == InitSido /\ [][NextSido]_vars

---------------------------------------------------------------------------
(* norm_sido and the address part of build_blocks_and_meta.  A str is the  *)
(* sequence of its characters, as for extract_sido; the syllables are      *)
(* romanized: seo ul 서울, bu san 부산, dae gu 대구, in cheon 인천,        *)
(* gwang ju 광주, dae jeon 대전, ul san 울산, se jong 세종, gyeong gi 경기, *)
(* teuk byeol si 특별시, gwang yeok si 광역시, ja chi 자치, gang won 강원. *)

\* the str of the syllables cs
T(cs) == Str([i \in 1..Len(cs) |-> Ch(cs[i])])

\* the six cities the table gives two long names each
Metro ==
    { <<"bu", "san">>, <<"dae", "gu">>, <<"in", "cheon">>, <<"gwang", "ju">>,
      <<"dae", "jeon">>, <<"ul", "san">> }

\* table of norm_sido, as <<key, value>> pairs
SidoTable ==
    { <<T(<<"seo", "ul", "teuk", "byeol", "si">>), T(<<"seo", "ul">>)>>,
      <<T(<<"seo", "ul", "si">>), T(<<"seo", "ul">>)>>,
      <<T(<<"se", "jong", "teuk", "byeol", "ja", "chi", "si">>), T(<<"se", "jong">>)>>,
      <<T(<<"se", "jong", "si">>), T(<<"se", "jong">>)>>,
      <<T(<<"gyeong", "gi", "do">>), T(<<"gyeong", "gi">>)>> }
    \cup { <<T(c \o <<"gwang", "yeok", "si">>), T(c)>> : c \in Metro }
    \cup { <<T(c \o <<"si">>), T(c)>> : c \in Metro }

\* norm_sido without the table: the stripped argument
norm_sidoPassThrough(v) == StripM(PyOr(v, Str(<<>>)))

norm_sido(v) ==
    LET s == StripM(PyOr(v, Str(<<>>)))
    IN IF \E p \in SidoTable : p[1] = s
       THEN (CHOOSE p \in SidoTable : p[1] = s)[2]
       ELSE s

extract_sigungu(v) ==
    IF ~Truthy(v) THEN Str(<<>>)
    ELSE LET parts == Split(v.s)
         IN IF Len(parts) > 1 THEN Str(Strip(parts[2])) ELSE Str(<<>>)

\* any(a.values())
AnyValue(a) == \E x \in DOMAIN a.f : Truthy(a.f[x])

pick_address(d) ==
    LET a == PyOr(DictGet(d, "address"), Dict(<<>>))
        ca == PyOr(DictGet(PyOr(DictGet(d, "company"), Dict(<<>>)), "address"),
                   Dict(<<>>))
    IN IF a.k = "dict" /\ AnyValue(a) THEN a
       ELSE IF ca.k = "dict" THEN ca
       ELSE Dict(<<>>)

\* (addr.get(key) or "").strip()
AddrField(d, key) == StripM(PyOr(DictGet(pick_address(d), key), Str(<<>>)))

\* location and district of build_blocks_and_meta before location goes
\* through norm_sido
LocationOf(d) ==
    IF ~Truthy(AddrField(d, "location")) /\ Truthy(AddrField(d, "full_location"))
    THEN extract_sido(AddrField(d, "full_location"))
    ELSE AddrField(d, "location")
DistrictOf(d) ==
    IF ~Truthy(AddrField(d, "district")) /\ Truthy(AddrField(d, "full_location"))
    THEN extract_sigungu(AddrField(d, "full_location"))
    ELSE AddrField(d, "district")

\* meta of build_blocks_and_meta, its keys location and district
build_blocks_and_meta(d) ==
    LET location == norm_sido(LocationOf(d))
        district == DistrictOf(d)
    IN MkDict({ <<"location", IF Truthy(location) THEN location ELSE Absent>>,
                <<"district", IF Truthy(district) THEN district ELSE Absent>> })

---------------------------------------------------------------------------
(* Specification of build_blocks_and_meta over drawn addresses *)

Gangnam == <<"gang", "nam", "gu">>
Gangwon == <<"gang", "won", "do">>

\* address.location: missing, null, empty, every key of the table, a short
\* form, a name the table does not have, a key with whitespace around it
LocationVals ==
    { Absent, None, Str(<<>>), T(<<"seo", "ul">>), T(Gangwon),
      T(<<" ", "bu", "san", "si", " ">>) }
    \cup { p[1] : p \in SidoTable }
FullLocationVals ==
    { Absent,
      T(<<"seo", "ul", "teuk", "byeol", "si", " ">> \o Gangnam),
      T(<<"seo", "ul", " ">> \o Gangnam),
      T(<<"gyeong", "gi", "do", " ", "seong", "nam", "si">>),
      T(Gangwon \o <<" ", "chun", "cheon", "si">>),
      T(<<" ">>) }
DistrictVals == { Absent, T(Gangnam) }
AddressVals ==
    { Absent, None } \cup
    { MkDict({<<"location", l>>, <<"district", g>>, <<"full_location", f>>}) :
        l \in LocationVals, g \in DistrictVals, f \in FullLocationVals }
CompanyAddressVals ==
    { Absent,
      MkDict({<<"address",
                MkDict({<<"full_location",
                          T(<<"bu", "san", "gwang", "yeok", "si", " ", "hae", "un",
                              "dae", "gu">>)>>})>>}) }
MetaDocs ==
    { MkDict({<<"address", a>>, <<"company", c>>}) :
        a \in AddressVals, c \in CompanyAddressVals }

InitMeta ==
    /\ pc = "call"
    /\ doc \in MetaDocs
    /\ result = None
    /\ IdleRules
    /\ IdleChunk
    /\ IdleMain
    /\ IdleSido
    /\ IdleCrawl

BuildMeta ==
    /\ pc = "call"
    /\ doc # None
    /\ result' = build_blocks_and_meta(doc)
    /\ pc' = "done"
    /\ UNCHANGED <<crawlVars, full_location, rulesVars, doc, chunkVars, mainVars>>

NextMeta == BuildMeta

SpecMeta == InitMeta /\ [][NextMeta]_vars

---------------------------------------------------------------------------
(* The wanted job posting Spider: start_requests and parse_list.  A job    *)
(* posting is named by its id; the detail requests parse_list yields stay  *)
(* with the scheduler.                                                     *)

\* f"https://www.wanted.co.kr/api/chaos/jobs/v4/{job_id}/details"
DetailUrl(job_id) == [host |-> "wanted", path |-> "details", id |-> job_id]

\* a document of master_crawler_logs
LogDoc(url, purposes, at) == [url |-> url, purposes |-> purposes, crawledAt |-> at]

\* find({"purposes": purpose}, {"url": 1}): the urls of the matching
\* documents, in cursor order
FindUrls(lg, purpose) ==
    LET HasPurpose(d) == \E i \in DOMAIN d.purposes : d.purposes[i] = purpose
        RECURSIVE From(_)
        From(i) ==
            IF i > Len(lg) THEN <<>>
            ELSE IF HasPurpose(lg[i]) THEN <<lg[i].url>> \o From(i + 1)
            ELSE From(i + 1)
    IN From(1)

\* the requests of the Spider
ListRequest(offset) == [callback |-> "parse_list", offset |-> offset]
DetailRequest(job_id) == [callback |-> "parse_detail", id |-> job_id]

\* the requests the generator _request_update_jobs yields when it is
\* iterated: one for each url of the log with purpose job_posting
request_update_jobs(lg) ==
    LET urls == FindUrls(lg, "job_posting")
    IN { DetailRequest(urls[i].id) : i \in DOMAIN urls }

\* the 20 of "next_offset = offset + 20"
PageStep == 20

\* data.get("data", []) of the list page at offset: no job beyond the last
\* page
JobsAt(offset) ==
    IF offset \div PageStep + 1 <= Len(listing)
    THEN listing[offset \div PageStep + 1]
    ELSE <<>>

\* JobLoop without the test "detail_url in self.crawled_urls"
RECURSIVE JobLoopNoSkip(_, _, _)
JobLoopNoSkip(jobs, count, out) ==
    IF jobs = <<>> THEN [count |-> count, out |-> out, returned |-> FALSE]
    ELSE IF max_jobs > 0 /\ count >= max_jobs
         THEN [count |-> count, out |-> out, returned |-> TRUE]
    ELSE JobLoopNoSkip(Tail(jobs), count + 1, Append(out, Head(jobs)))

\* the loop of parse_list over jobs from collected_count = count: the count
\* it ends with, the ids it yields a detail request for, and whether it
\* left by the return of line 122
RECURSIVE JobLoop(_, _, _)
JobLoop(jobs, count, out) ==
    IF jobs = <<>> THEN [count |-> count, out |-> out, returned |-> FALSE]
    ELSE IF max_jobs > 0 /\ count >= max_jobs
         THEN [count |-> count, out |-> out, returned |-> TRUE]
    ELSE IF DetailUrl(Head(jobs)) \in crawled_urls
         THEN JobLoop(Tail(jobs), count, out)
    ELSE JobLoop(Tail(jobs), count + 1, Append(out, Head(jobs)))

\* the offsets a crawl is followed to, in pages: the pages from MaxOffset
\* on lie beyond the listing and are all empty, and the offsets beyond
\* MaxOffset pages are folded onto two
MaxOffset == 4

\* next_offset = offset + 20
NextOffset(offset) ==
    IF offset \div PageStep > MaxOffset
    THEN MaxOffset * PageStep
    ELSE offset + PageStep

\* start_requests: in create mode the request of the first list page; in
\* update mode _request_update_jobs() is called, which makes a generator
\* that is never iterated, so no request is yielded
StartRequests ==
    /\ pc = "start"
    /\ pc' = "crawl"
    /\ scheduled' = IF mode = "create" THEN {ListRequest(0)} ELSE {}
    /\ UNCHANGED <<mode, max_jobs, collected_count, crawled_urls, listing, log,
                   issued>>
    /\ UNCHANGED <<jkVars, storeVars, full_location, rulesVars, docVars, chunkVars,
                   mainVars>>

\* parse_list on the response of a list request
ParseList ==
    /\ pc = "crawl"
    /\ \E r \in scheduled :
          /\ r.callback = "parse_list"
          /\ LET loop == JobLoop(JobsAt(r.offset), collected_count, <<>>)
                 next == IF ~loop.returned /\ loop.count < max_jobs
                         THEN {ListRequest(NextOffset(r.offset))}
                         ELSE {}
             IN /\ collected_count' = loop.count
                /\ issued' = issued \o loop.out
                /\ scheduled' =
                      (scheduled \ {r})
                          \cup { DetailRequest(loop.out[i]) : i \in DOMAIN loop.out }
                          \cup next
    /\ UNCHANGED <<pc, mode, max_jobs, crawled_urls, listing, log>>
    /\ UNCHANGED <<jkVars, storeVars, full_location, rulesVars, docVars, chunkVars,
                   mainVars>>

\* the download of a list request fails: its callback is not called
FailList ==
    /\ pc = "crawl"
    /\ \E r \in scheduled :
          /\ r.callback = "parse_list"
          /\ scheduled' = scheduled \ {r}
    /\ UNCHANGED <<pc, mode, max_jobs, collected_count, crawled_urls, listing, log,
                   issued>>
    /\ UNCHANGED <<jkVars, storeVars, full_location, rulesVars, docVars, chunkVars,
                   mainVars>>

---------------------------------------------------------------------------
(* Specification of a wanted crawl over drawn sites, logs and arguments *)

MaxPages == 2
MaxPageLen == 2
MaxMaxJobs == 2

\* the list pages with lens[k] jobs on page k, the ids in listing order;
\* with shift a page starts with the last job of the page before it (a job
\* was added to the site between the two requests)
ListingOf(lens, shift) ==
    LET RECURSIVE Before(_)
        Before(k) ==
            IF k = 1 THEN 0
            ELSE Before(k - 1) + lens[k - 1]
                    - (IF shift /\ lens[k - 1] > 0 THEN 1 ELSE 0)
    IN [k \in DOMAIN lens |-> [i \in 1..lens[k] |-> Before(k) + i]]

Listings ==
    { ListingOf(lens, shift) :
        lens \in SeqsUpTo(0..MaxPageLen, MaxPages), shift \in BOOLEAN }

\* the logs drawn: empty, postings logged by earlier runs, and a url logged
\* for another purpose only
LogVals ==
    { <<>>,
      << LogDoc(DetailUrl(1), <<"job_posting">>, 0) >>,
      << LogDoc(DetailUrl(2), <<"job_posting">>, 0),
         LogDoc(DetailUrl(3), <<"company_profile">>, 0) >>,
      << LogDoc(DetailUrl(1), <<"company_profile", "job_posting">>, 0),
         LogDoc(DetailUrl(3), <<"job_posting">>, 0) >> }

\* the state after __init__: in create mode _load_crawled_urls has read the
\* log, or has failed and left the set empty
InitWanted ==
    /\ pc = "start"
    /\ mode \in {"create", "update"}
    /\ max_jobs \in 0..MaxMaxJobs
    /\ collected_count = 0
    /\ listing \in Listings
    /\ log \in LogVals
    /\ crawled_urls \in
          IF mode = "create"
          THEN { {}, { FindUrls(log, "job_posting")[i] :
                          i \in DOMAIN FindUrls(log, "job_posting") } }
          ELSE { {} }
    /\ scheduled = {}
    /\ issued = <<>>
    /\ IdleJk
    /\ IdleStore
    /\ IdleRules
    /\ IdleDoc
    /\ IdleChunk
    /\ IdleMain
    /\ IdleSido

NextWanted == StartRequests \/ ParseList \/ FailList

SpecWanted == InitWanted /\ [][NextWanted]_vars

\* the same, the engine going on: start_requests is consumed, and a list
\* request the scheduler holds is answered in the end unless it fails
SpecWantedLive == SpecWanted /\ WF_vars(StartRequests \/ ParseList)

---------------------------------------------------------------------------
(* The jobkorea cover letter Spider: start_requests, parse and             *)
(* parse_company_essays.  A company is named by the id of its link         *)
(* /Company/<id>; 0 stands for a link of the list with another path.  The  *)
(* cover letter requests parse_company_essays yields are counted, not      *)
(* kept.                                                                   *)

\* f"https://www.jobkorea.co.kr/company/{company_id}/PassAssay"
PassAssayUrl(company_id) ==
    [host |-> "jobkorea", path |-> "PassAssay", id |-> company_id]

\* the url of a cover letter
CoverLetterUrl(n) == [host |-> "jobkorea", path |-> "View", id |-> n]

\* update_one({'url': url}, {'$addToSet': {'purposes': purpose},
\* '$set': {'crawledAt': at}}, upsert=True) on the documents lg: the first
\* document with that url is updated, and one is inserted when there is none
\* '$push' in the place of '$addToSet'
AddToSetPush(purposes, purpose) == Append(purposes, purpose)

AddToSet(purposes, purpose) ==
    IF \E i \in DOMAIN purposes : purposes[i] = purpose
    THEN purposes
    ELSE Append(purposes, purpose)

UpsertLog(lg, url, purpose, at) ==
    IF \E i \in DOMAIN lg : lg[i].url = url
    THEN LET first == CHOOSE i \in DOMAIN lg :
                         /\ lg[i].url = url
                         /\ \A j \in 1..(i - 1) : lg[j].url # url
         IN [lg EXCEPT ![first] =
                LogDoc(url, AddToSet(lg[first].purposes, purpose), at)]
    ELSE Append(lg, LogDoc(url, <<purpose>>, at))

\* the requests of the Spider; response.follow and scrapy.Request leave
\* dont_filter unset, so the scheduler drops a request whose url it has seen:
\* Fingerprint is the request without its meta
PageRequest(page) == [callback |-> "parse", page |-> page]
EssaysRequest(company, page, crawled_essays) ==
    [callback |-> "parse_company_essays", company |-> company, page |-> page,
     crawled_essays |-> crawled_essays]
CoverLetterRequest(url) == [callback |-> "parse_cover_letter", url |-> url]
Fingerprint(r) ==
    IF r.callback = "parse_company_essays"
    THEN [callback |-> r.callback, company |-> r.company, page |-> r.page]
    ELSE r
Enqueue(sched, sn, reqs) ==
    sched \cup { r \in reqs : Fingerprint(r) \notin sn }

\* CompanyLoop without the test of crawled_companies against max_companies
RECURSIVE CompanyLoopNoLimit(_, _, _)
CompanyLoopNoLimit(links, count, out) ==
    IF links = <<>> THEN [count |-> count, out |-> out, returned |-> FALSE]
    ELSE IF Head(links) = 0
         THEN CompanyLoopNoLimit(Tail(links), count, out)
    ELSE IF PassAssayUrl(Head(links)) \in crawled_passassay_urls
         THEN CompanyLoopNoLimit(Tail(links), count, out)
    ELSE CompanyLoopNoLimit(Tail(links), count + 1, Append(out, Head(links)))

\* the loop of parse over company_links from crawled_companies = count: the
\* count it ends with, the companies it yields a PassAssay request for, and
\* whether it left by the return of line 131
RECURSIVE CompanyLoop(_, _, _)
CompanyLoop(links, count, out) ==
    IF links = <<>> THEN [count |-> count, out |-> out, returned |-> FALSE]
    ELSE IF count >= max_companies
         THEN [count |-> count, out |-> out, returned |-> TRUE]
    ELSE IF Head(links) = 0
         THEN CompanyLoop(Tail(links), count, out)
    ELSE IF PassAssayUrl(Head(links)) \in crawled_passassay_urls
         THEN CompanyLoop(Tail(links), count, out)
    ELSE CompanyLoop(Tail(links), count + 1, Append(out, Head(links)))

\* the loop of parse_company_essays over n essay links from
\* crawled_essays_count = count
RECURSIVE EssayLoop(_, _)
EssayLoop(n, count) ==
    IF n = 0 THEN [count |-> count, returned |-> FALSE]
    ELSE IF count >= max_essays_per_company
         THEN [count |-> count, returned |-> TRUE]
    ELSE EssayLoop(n - 1, count + 1)

\* meta 'crawled_essays' of the request of the next essay page, were the
\* count to start again on every page
NextPageMetaFromZero(crawled_essays_count) == 0

\* meta={'crawled_essays': crawled_essays_count, ...} of the request of the
\* next essay page
NextPageMeta(crawled_essays_count) == crawled_essays_count

\* len(essay_links) on page p of the essay list of a company
EssayLinks(company, p) ==
    IF p <= Len(essay_pages[company]) THEN essay_pages[company][p] ELSE 0

\* start_requests: in create mode the request of the first company list
\* page; in update mode one request for each url of the log with purpose
\* cover_letter, or none when the log cannot be read
StartRequestsJk ==
    /\ pc = "jk_start"
    /\ pc' = "jk_crawl"
    /\ \E found \in BOOLEAN :
          LET urls == FindUrls(log, "cover_letter")
              reqs == IF mode = "create" THEN {PageRequest(1)}
                      ELSE IF found
                           THEN { CoverLetterRequest(urls[i]) : i \in DOMAIN urls }
                      ELSE {}
          IN /\ scheduled' = Enqueue(scheduled, seen, reqs)
             /\ seen' = seen \cup { Fingerprint(r) : r \in reqs }
    /\ UNCHANGED <<mode, log, issued, max_companies, max_essays_per_company,
                   crawled_companies, crawled_passassay_urls, company_pages,
                   essay_pages, essays, log0>>
    /\ UNCHANGED <<max_jobs, collected_count, crawled_urls, listing, storeVars>>
    /\ UNCHANGED <<full_location, rulesVars, docVars, chunkVars, mainVars>>

\* parse on the response of a company list page
Parse ==
    /\ pc = "jk_crawl"
    /\ \E r \in scheduled :
          /\ r.callback = "parse"
          /\ LET links == IF r.page <= Len(company_pages)
                          THEN company_pages[r.page] ELSE <<>>
                 loop == CompanyLoop(links, crawled_companies, <<>>)
                 next == IF /\ ~loop.returned
                            /\ loop.count < max_companies
                            /\ r.page < Len(company_pages)
                         THEN {PageRequest(r.page + 1)}
                         ELSE {}
                 reqs == { EssaysRequest(loop.out[i], 1, 0) : i \in DOMAIN loop.out }
                            \cup next
             IN /\ crawled_companies' = loop.count
                /\ issued' = issued \o loop.out
                /\ scheduled' = Enqueue(scheduled \ {r}, seen, reqs)
                /\ seen' = seen \cup { Fingerprint(q) : q \in reqs }
    /\ UNCHANGED <<pc, mode, log, max_companies, max_essays_per_company,
                   crawled_passassay_urls, company_pages, essay_pages, essays,
                   log0>>
    /\ UNCHANGED <<max_jobs, collected_count, crawled_urls, listing, storeVars>>
    /\ UNCHANGED <<full_location, rulesVars, docVars, chunkVars, mainVars>>

\* parse_company_essays on the response of an essay list page;
\* log_crawl_purpose writes the log, or fails and only reports it
ParseCompanyEssays ==
    /\ pc = "jk_crawl"
    /\ \E r \in scheduled, logged \in BOOLEAN :
          /\ r.callback = "parse_company_essays"
          /\ LET n == EssayLinks(r.company, r.page)
                 loop == EssayLoop(n, r.crawled_essays)
                 next == IF /\ ~loop.returned
                            /\ loop.count < max_essays_per_company
                            /\ n > 0
                            /\ r.page < Len(essay_pages[r.company])
                         THEN {EssaysRequest(r.company, r.page + 1,
                                             NextPageMeta(loop.count))}
                         ELSE {}
             IN /\ log' = IF r.crawled_essays = 0 /\ n > 0 /\ logged
                          THEN UpsertLog(log, PassAssayUrl(r.company),
                                         "pass_assay_list", 1)
                          ELSE log
                /\ essays' = [essays EXCEPT ![r.company] =
                                 @ + (loop.count - r.crawled_essays)]
                /\ scheduled' = Enqueue(scheduled \ {r}, seen, next)
                /\ seen' = seen \cup { Fingerprint(q) : q \in next }
    /\ UNCHANGED <<pc, mode, issued, max_companies, max_essays_per_company,
                   crawled_companies, crawled_passassay_urls, company_pages,
                   essay_pages, log0>>
    /\ UNCHANGED <<max_jobs, collected_count, crawled_urls, listing, storeVars>>
    /\ UNCHANGED <<full_location, rulesVars, docVars, chunkVars, mainVars>>

\* the download of a request fails: its callback is not called
FailRequestJk ==
    /\ pc = "jk_crawl"
    /\ \E r \in scheduled :
          /\ r.callback \in {"parse", "parse_company_essays"}
          /\ scheduled' = scheduled \ {r}
    /\ UNCHANGED <<pc, mode, log, issued, jkVars>>
    /\ UNCHANGED <<max_jobs, collected_count, crawled_urls, listing, storeVars>>
    /\ UNCHANGED <<full_location, rulesVars, docVars, chunkVars, mainVars>>

---------------------------------------------------------------------------
(* Specification of a jobkorea crawl over drawn sites, logs and arguments *)

MaxMaxCompanies == 2
MaxMaxEssays == 2

Companies == {1, 2}

\* the company list pages drawn
CompanySites ==
    { <<>>,
      << <<1>> >>,
      << <<1, 2>> >>,
      << <<1>>, <<2>> >>,
      << <<0, 1>>, <<1, 2>> >>,
      << <<1, 2>>, <<1>> >>,
      << <<2, 1>>, <<1>> >> }

\* the essay lists drawn for a company: the number of links of each page
EssaySites == { <<>>, <<1>>, <<1, 2>>, <<2, 2>> }

\* the logs drawn: empty, a company logged by an earlier run, and a cover
\* letter logged by an earlier run
LogValsJk ==
    { <<>>,
      << LogDoc(PassAssayUrl(1), <<"pass_assay_list">>, 0) >>,
      << LogDoc(CoverLetterUrl(1), <<"cover_letter">>, 0),
         LogDoc(PassAssayUrl(2), <<"pass_assay_list">>, 0) >> }

\* the state after __init__: in create mode _load_crawled_urls has read the
\* log, or has failed and left the set empty
InitJk ==
    /\ pc = "jk_start"
    /\ mode \in {"create", "update"}
    /\ max_companies \in 0..MaxMaxCompanies
    /\ max_essays_per_company \in 0..MaxMaxEssays
    /\ crawled_companies = 0
    /\ company_pages \in CompanySites
    /\ essay_pages \in [Companies -> EssaySites]
    /\ log \in LogValsJk
    /\ log0 = log
    /\ crawled_passassay_urls \in
          IF mode = "create"
          THEN { {}, { FindUrls(log, "pass_assay_list")[i] :
                          i \in DOMAIN FindUrls(log, "pass_assay_list") } }
          ELSE { {} }
    /\ scheduled = {}
    /\ seen = {}
    /\ issued = <<>>
    /\ essays = [c \in Companies |-> 0]
    /\ max_jobs = 0 /\ collected_count = 0 /\ crawled_urls = {} /\ listing = <<>>
    /\ IdleStore
    /\ IdleRules
    /\ IdleDoc
    /\ IdleChunk
    /\ IdleMain
    /\ IdleSido

NextJk == StartRequestsJk \/ Parse \/ ParseCompanyEssays \/ FailRequestJk

SpecJk == InitJk /\ [][NextJk]_vars

---------------------------------------------------------------------------
(* The Mongo pipelines: WantedJobPostingPipeline, MasterJobPostingPipeline *)
(* and the MongoPipeline of jobkorea_cover_letter.  An item is a record of *)
(* its class, its metadata and the rest of its fields (body).              *)

Item(type, url, at, content) ==
    [type |-> type, metadata |-> [sourceUrl |-> url, crawledAt |-> at],
     body |-> content]

\* item.to_dict()
to_dict(item) == [metadata |-> item.metadata, body |-> item.body]

\* {'$set': data} on the document d
SetFields(d, data) ==
    [k \in DOMAIN d \cup DOMAIN data |->
        IF k \in DOMAIN data THEN data[k] ELSE d[k]]

\* update_one({'metadata.sourceUrl': source_url}, {'$set': data},
\* upsert=True) on the documents c: the first document with that sourceUrl
\* is updated, and data is inserted when there is none
UpsertDoc(c, source_url, data) ==
    IF \E i \in DOMAIN c : c[i].metadata.sourceUrl = source_url
    THEN LET first == CHOOSE i \in DOMAIN c :
                         /\ c[i].metadata.sourceUrl = source_url
                         /\ \A j \in 1..(i - 1) :
                               c[j].metadata.sourceUrl # source_url
         IN [c EXCEPT ![first] = SetFields(@, data)]
    ELSE Append(c, data)

\* the pipelines: the class of the items each one stores (any for the one
\* without an isinstance test), its collection, the purpose it logs, and
\* whether it has the try/except around its writes
Pipelines ==
    { [name |-> "WantedJobPostingPipeline", type |-> "WantedJobPosting",
       collection |-> "wanted_job_postings", purpose |-> "job_posting",
       catches |-> FALSE],
      [name |-> "MasterJobPostingPipeline", type |-> "MasterJobPosting",
       collection |-> "master_job_postings", purpose |-> "job_posting",
       catches |-> FALSE],
      [name |-> "MongoPipeline", type |-> "any",
       collection |-> "cover_letters", purpose |-> "cover_letter",
       catches |-> TRUE] }

PipelineOf(name) == CHOOSE p \in Pipelines : p.name = name

\* the writes that can raise in a call of process_item
Fails == {"none", "collection", "log"}

\* process_item of pipeline p on item over the collection c and the log lg
\* at time at, when the write fail raises: the collection and the log it
\* leaves, and the item returned or the exception raised
process_item(p, item, c, lg, at, fail) ==
    IF p.type # "any" /\ item.type # p.type
    THEN [collection |-> c, log |-> lg, returned |-> item]
    ELSE IF fail = "collection"
    THEN [collection |-> c, log |-> lg,
          returned |-> IF p.catches THEN item ELSE Raise("PyMongoError")]
    ELSE IF fail = "log"
    THEN [collection |-> UpsertDoc(c, item.metadata.sourceUrl, to_dict(item)),
          log |-> lg,
          returned |-> IF p.catches THEN item ELSE Raise("PyMongoError")]
    ELSE [collection |-> UpsertDoc(c, item.metadata.sourceUrl, to_dict(item)),
          log |-> UpsertLog(lg, item.metadata.sourceUrl, p.purpose, at),
          returned |-> item]

\* the collection of the name
CollectionOf(name) ==
    IF name = "wanted_job_postings" THEN wanted_job_postings
    ELSE IF name = "master_job_postings" THEN master_job_postings
    ELSE cover_letters

\* one call of process_item of the pipeline named name
Call(name, item, fail) ==
    LET p == PipelineOf(name)
        out == process_item(p, item, CollectionOf(p.collection), log, clock, fail)
    IN /\ wanted_job_postings' =
             IF p.collection = "wanted_job_postings" THEN out.collection
             ELSE wanted_job_postings
       /\ master_job_postings' =
             IF p.collection = "master_job_postings" THEN out.collection
             ELSE master_job_postings
       /\ cover_letters' =
             IF p.collection = "cover_letters" THEN out.collection
             ELSE cover_letters
       /\ log' = out.log
       /\ called' = [pipeline |-> name, item |-> item,
                     fail |-> IF p.type # "any" /\ item.type # p.type
                              THEN "none" ELSE fail]
       /\ returned' = out.returned

MaxClock == 3

\* the urls and contents of the items drawn
ItemUrls == {DetailUrl(1), DetailUrl(2)}
ItemBodies == {1, 2}

\* a call of process_item of one of the wanted pipelines, on an item of
\* either class of the wanted crawl
ProcessItemWanted ==
    /\ pc = "pipe"
    /\ clock < MaxClock
    /\ clock' = clock + 1
    /\ \E name \in {"WantedJobPostingPipeline", "MasterJobPostingPipeline"},
          type \in {"WantedJobPosting", "MasterJobPosting"},
          url \in ItemUrls, content \in ItemBodies, fail \in Fails :
          Call(name, Item(type, url, 0, content), fail)
    /\ UNCHANGED <<pc, company_ids, items>>
    /\ UNCHANGED <<mode, max_jobs, collected_count, crawled_urls, listing,
                   scheduled, issued, jkVars>>
    /\ UNCHANGED <<full_location, rulesVars, docVars, chunkVars, mainVars>>

\* a call of process_item of the jobkorea MongoPipeline
ProcessItemCoverLetter ==
    /\ pc = "pipe"
    /\ clock < MaxClock
    /\ clock' = clock + 1
    /\ \E n \in {1, 2}, content \in ItemBodies, fail \in Fails :
          Call("MongoPipeline",
               Item("JobkoreaCoverLetter", CoverLetterUrl(n), 0, content), fail)
    /\ UNCHANGED <<pc, company_ids, items>>
    /\ UNCHANGED <<mode, max_jobs, collected_count, crawled_urls, listing,
                   scheduled, issued, jkVars>>
    /\ UNCHANGED <<full_location, rulesVars, docVars, chunkVars, mainVars>>

\* the stores before the calls: empty
InitPipe ==
    /\ pc = "pipe"
    /\ wanted_job_postings = <<>> /\ master_job_postings = <<>>
    /\ cover_letters = <<>> /\ log = <<>>
    /\ company_ids = <<>> /\ items = {}
    /\ clock = 0 /\ called = <<>> /\ returned = <<>>
    /\ mode = "" /\ max_jobs = 0 /\ collected_count = 0 /\ crawled_urls = {}
    /\ listing = <<>> /\ scheduled = {} /\ issued = <<>>
    /\ IdleJk
    /\ IdleRules
    /\ IdleDoc
    /\ IdleChunk
    /\ IdleMain
    /\ IdleSido

NextPipe == ProcessItemWanted \/ ProcessItemCoverLetter

SpecPipe == InitPipe /\ [][NextPipe]_vars

---------------------------------------------------------------------------
(* The wanted job posting Spider: parse_detail and parse_company, with the *)
(* two pipelines of the crawl.  The scheduler drops a request whose url it *)
(* has seen.                                                               *)

\* scrapy.Request(url=company_page_url, callback=self.parse_company,
\* meta={"job_data": item2})
CompanyRequest(company_id, item2) ==
    [callback |-> "parse_company", company |-> company_id, job_data |-> item2]

\* the request without its meta
FingerprintPost(r) ==
    IF r.callback = "parse_company"
    THEN [callback |-> r.callback, company |-> r.company]
    ELSE r

\* parse_detail on the response of a detail request: item and item2 are
\* built, item is yielded, and the company page is requested when the
\* posting names the id of its company; when the response cannot be read
\* the exception is logged and nothing is yielded
ParseDetail ==
    /\ pc = "post"
    /\ \E r \in scheduled, read \in BOOLEAN :
          /\ r.callback = "parse_detail"
          /\ LET detail_url == DetailUrl(r.id)
                 item == Item("WantedJobPosting", detail_url, 0, 1)
                 item2 == Item("MasterJobPosting", detail_url, 0, 1)
                 company_id == company_ids[r.id]
                 reqs == IF read /\ company_id # 0
                         THEN {CompanyRequest(company_id, item2)}
                         ELSE {}
             IN /\ items' = IF read THEN items \cup {item} ELSE items
                /\ scheduled' =
                      (scheduled \ {r})
                          \cup { q \in reqs : FingerprintPost(q) \notin seen }
                /\ seen' = seen \cup { FingerprintPost(q) : q \in reqs }
    /\ UNCHANGED <<pc, mode, log, issued, max_companies, max_essays_per_company,
                   crawled_companies, crawled_passassay_urls, company_pages,
                   essay_pages, essays, log0>>
    /\ UNCHANGED <<wanted_job_postings, master_job_postings, cover_letters,
                   company_ids, clock, called, returned>>
    /\ UNCHANGED <<max_jobs, collected_count, crawled_urls, listing>>
    /\ UNCHANGED <<full_location, rulesVars, docVars, chunkVars, mainVars>>

\* parse_company on the response of a company page: the master item of
\* the request is yielded, with the company fields or with the fallback
ParseCompany ==
    /\ pc = "post"
    /\ \E r \in scheduled :
          /\ r.callback = "parse_company"
          /\ items' = items \cup {r.job_data}
          /\ scheduled' = scheduled \ {r}
    /\ UNCHANGED <<pc, mode, log, issued, jkVars>>
    /\ UNCHANGED <<wanted_job_postings, master_job_postings, cover_letters,
                   company_ids, clock, called, returned>>
    /\ UNCHANGED <<max_jobs, collected_count, crawled_urls, listing>>
    /\ UNCHANGED <<full_location, rulesVars, docVars, chunkVars, mainVars>>

\* a yielded item goes through the pipeline of its class; the other
\* pipeline hands it on untouched
ProcessItemPost ==
    /\ pc = "post"
    /\ \E item \in items, fail \in Fails :
          /\ items' = items \ {item}
          /\ Call(IF item.type = "WantedJobPosting"
                  THEN "WantedJobPostingPipeline"
                  ELSE "MasterJobPostingPipeline", item, fail)
    /\ clock' = clock + 1
    /\ UNCHANGED <<pc, company_ids>>
    /\ UNCHANGED <<mode, max_jobs, collected_count, crawled_urls, listing,
                   scheduled, issued, jkVars>>
    /\ UNCHANGED <<full_location, rulesVars, docVars, chunkVars, mainVars>>

\* the download of a request fails: its callback is not called
FailRequestPost ==
    /\ pc = "post"
    /\ \E r \in scheduled : scheduled' = scheduled \ {r}
    /\ UNCHANGED <<pc, mode, log, issued, jkVars, storeVars>>
    /\ UNCHANGED <<max_jobs, collected_count, crawled_urls, listing>>
    /\ UNCHANGED <<full_location, rulesVars, docVars, chunkVars, mainVars>>

Postings == {1, 2}

\* the state after parse_list has yielded the detail requests of the
\* postings of a page; the stores are empty, or hold posting 2 as an
\* earlier run left it
InitPost ==
    /\ pc = "post"
    /\ mode = "create"
    /\ company_ids \in [Postings -> {0, 7, 8}]
    /\ \E ids \in (SUBSET Postings) \ {{}} :
          /\ scheduled = { DetailRequest(j) : j \in ids }
          /\ seen = scheduled
    /\ \E before \in BOOLEAN :
          /\ wanted_job_postings =
                IF before
                THEN << to_dict(Item("WantedJobPosting", DetailUrl(2), 0, 2)) >>
                ELSE <<>>
          /\ master_job_postings =
                IF before
                THEN << to_dict(Item("MasterJobPosting", DetailUrl(2), 0, 2)) >>
                ELSE <<>>
          /\ log = IF before
                   THEN << LogDoc(DetailUrl(2), <<"job_posting">>, 0) >>
                   ELSE <<>>
    /\ cover_letters = <<>>
    /\ items = {}
    /\ clock = 1 /\ called = <<>> /\ returned = <<>>
    /\ max_jobs = 0 /\ collected_count = 0 /\ crawled_urls = {} /\ listing = <<>>
    /\ issued = <<>>
    /\ max_companies = 0 /\ max_essays_per_company = 0
    /\ crawled_companies = 0 /\ crawled_passassay_urls = {}
    /\ company_pages = <<>> /\ essay_pages = <<>> /\ essays = <<>> /\ log0 = log
    /\ IdleRules
    /\ IdleDoc
    /\ IdleChunk
    /\ IdleMain
    /\ IdleSido

NextPost == ParseDetail \/ ParseCompany \/ ProcessItemPost \/ FailRequestPost

SpecPost == InitPost /\ [][NextPost]_vars

---------------------------------------------------------------------------
(* Properties of match_by_rules *)

Min(S) == CHOOSE x \in S : \A y \in S : x <= y

\* the entries of TITLE_RULES with a pattern that matches x
TitleHits(x) ==
    { i \in DOMAIN TITLE_RULES : AnySearch(TITLE_RULES[i].patterns, OrEmpty(x)) }

\* the buckets of BODY_RULES with a pattern that matches x
BodyHits(x) ==
    { BODY_RULES[i].bucket : i \in
        { i \in DOMAIN BODY_RULES : AnySearch(BODY_RULES[i].patterns, OrEmpty(x)) } }

\* bucket bkt has a deny pattern that matches x
Denied(bkt, x) ==
    bkt \in DOMAIN BODY_DENY /\ AnySearch(BODY_DENY[bkt], OrEmpty(x))

\* the body candidates no deny pattern removes
Survivors(x) == { c \in BodyHits(x) : ~Denied(c, x) }

\* the place of a bucket in PRIORITY
PrioIdx(bkt) == Min({ i \in DOMAIN PRIORITY : PRIORITY[i] = bkt })

\* r is the member of S that comes earliest in PRIORITY
EarliestIn(r, S) == r \in S /\ \A c \in S : PrioIdx(r) <= PrioIdx(c)

\* C1: when a pattern of TITLE_RULES matches the title, match_by_rules
\* returns the bucket of the first entry of TITLE_RULES, in declaration
\* order, that has a matching pattern, whatever the body is.
C1_TitleFirstRuleWins ==
    (pc = "done" /\ TitleHits(title) # {})
        => ret = TITLE_RULES[Min(TitleHits(title))].bucket

\* C1 witness: a title matching two title rules, returned with a body that
\* has body candidates of other buckets only
C1_Witness ==
    /\ pc = "done"
    /\ Cardinality(TitleHits(title)) >= 2
    /\ BodyHits(body) # {}
    /\ ret \notin BodyHits(body)

\* C2: when no title rule matches and some body candidate survives the deny
\* filter, match_by_rules returns the surviving candidate that comes
\* earliest in PRIORITY (so never a denied candidate).
C2_BestSurvivorWins ==
    (pc = "done" /\ TitleHits(title) = {} /\ Survivors(body) # {})
        => EarliestIn(ret, Survivors(body))

\* C2 witness: a denied candidate that comes before the returned survivor
\* in PRIORITY
C2_Witness ==
    /\ pc = "done"
    /\ TitleHits(title) = {}
    /\ Survivors(body) # {}
    /\ \E d \in BodyHits(body) \ Survivors(body) : PrioIdx(d) < PrioIdx(ret)

\* C3: when no title rule matches, the body has candidates and every one of
\* them is denied, match_by_rules returns the candidate that comes earliest
\* in PRIORITY among the unfiltered candidates, never None.
C3_AllDeniedFallsBack ==
    (pc = "done" /\ TitleHits(title) = {} /\ BodyHits(body) # {}
        /\ Survivors(body) = {})
        => EarliestIn(ret, BodyHits(body))

\* C3 witness: two candidates, both denied, one of them returned
C3_Witness ==
    /\ pc = "done"
    /\ TitleHits(title) = {}
    /\ Cardinality(BodyHits(body)) >= 2
    /\ Survivors(body) = {}
    /\ ret \in BodyHits(body)

\* the words of the vocabulary that a pattern of BODY_DENY matches and no
\* title rule does
DenyWords ==
    { w \in DOMAIN WordLen :
        /\ \E bkt \in DOMAIN BODY_DENY : AnySearch(BODY_DENY[bkt], <<W(w)>>)
        /\ TitleHits(Str(<<W(w)>>)) = {} }

\* the title t with deny text added: a word of DenyWords put behind it; and
\* with deny text taken out: t without its words of DenyWords
TitleVariants(t) ==
    LET Clean(tok) == LowerWord(tok.w) \notin DenyWords
    IN { Str(SelectSeq(OrEmpty(t), Clean)) }
           \cup { Str(OrEmpty(t) \o <<SP, W(w)>>) : w \in DenyWords }

\* C16: the deny patterns are searched in the body only: with the body
\* fixed, every title that matches the same title rules gives the same
\* bucket, whether it holds text a deny pattern matches or not.
C16_DenyIgnoresTitle ==
    (pc = "done" /\ doc = None) =>
        \A t2 \in TitleVariants(title) :
            TitleHits(t2) = TitleHits(title) => match_by_rules(t2, body) = ret

\* C16 witness: a title no title rule matches holds text that a deny
\* pattern of the returned bucket matches; the body has two candidates and
\* none of its own text denies the returned one
C16_Witness ==
    /\ pc = "done" /\ doc = None
    /\ TitleHits(title) = {}
    /\ Cardinality(BodyHits(body)) >= 2
    /\ ret \in BodyHits(body)
    /\ Denied(ret, title)
    /\ ~Denied(ret, body)

\* the buckets PRIORITY names, and those BODY_RULES names
PriorityBuckets == { PRIORITY[i] : i \in DOMAIN PRIORITY }
BodyRuleBuckets == { BODY_RULES[i].bucket : i \in DOMAIN BODY_RULES }

\* filtered of match_by_rules for body x, as a set
FilteredSet(x) ==
    LET f == Filtered(Candidates(Lower(OrEmpty(x))), Lower(OrEmpty(x)))
    IN { f[i] : i \in DOMAIN f }

\* C26: every bucket of BODY_RULES is in PRIORITY; so when the body pass has
\* a candidate, the PRIORITY loop returns (the entry of filtered that comes
\* earliest in PRIORITY) and "return filtered[0]" is not reached.
C26_PriorityCoversBodyRules ==
    /\ BodyRuleBuckets \subseteq PriorityBuckets
    /\ (pc = "done" /\ TitleHits(title) = {} /\ BodyHits(body) # {}) =>
          /\ FilteredSet(body) \cap PriorityBuckets # {}
          /\ EarliestIn(ret, FilteredSet(body))

\* C26 witness: two body candidates left in filtered, and the one returned
\* is not the first in match order
C26_Witness ==
    /\ pc = "done" /\ TitleHits(title) = {}
    /\ Cardinality(FilteredSet(body)) >= 2
    /\ ret # Filtered(Candidates(Lower(OrEmpty(body))), Lower(OrEmpty(body)))[1]
    /\ ret \in PriorityBuckets

---------------------------------------------------------------------------
(* Properties of classify_doc *)

\* C4: classify_doc returns the bucket "etc" exactly when no title rule
\* matches the extracted title and no body rule matches the gathered body;
\* a record with an empty extracted title and an empty gathered body is "etc".
C4_EtcIffNoRuleMatches ==
    (pc = "done" /\ doc # None) =>
        /\ result.k = "tuple"
        /\ result.bucket = "etc" <=>
              (TitleHits(extract_title(doc)) = {} /\ BodyHits(gather_body(doc)) = {})
        /\ (extract_title(doc).s = <<>> /\ gather_body(doc).s = <<>>)
              => result.bucket = "etc"

\* C4 witness: a record with a title and a body, neither matched by a rule,
\* classified "etc"
C4_Witness ==
    /\ pc = "done" /\ doc # None
    /\ result.k = "tuple" /\ result.bucket = "etc"
    /\ Truthy(extract_title(doc)) /\ Truthy(gather_body(doc))

\* d with Op applied to the value of key, when d is a dict that has the key
MapKey(d, key, Op(_)) ==
    IF d.k = "dict" /\ key \in DOMAIN d.f
    THEN Dict([x \in DOMAIN d.f |-> IF x = key THEN Op(d.f[x]) ELSE d.f[x]])
    ELSE d

\* a value of another type where a str is read, taken as the empty str
BlankStr(v) == IF v.k \in {"num", "list", "dict"} THEN Str(<<>>) ELSE v

\* the same, a list (the type of a job field in the stored postings) kept
BlankJob(v) == IF v.k \in {"num", "dict"} THEN Str(<<>>) ELSE v

\* a value of another type where a dict is read, taken as the empty dict
AsDict(v) == IF v.k \in {"num", "list", "str"} THEN Dict(<<>>) ELSE v

\* the record with every field of an unexpected type replaced by an empty
\* one; Job(_) says what a job field of an unexpected type is replaced by
BlankedWith(d, Job(_)) ==
    LET Position(p) == MapKey(AsDict(p), "job", Job)
        Detail(dt) ==
            MapKey(MapKey(MapKey(MapKey(AsDict(dt),
                "position", Position), "intro", BlankStr),
                "main_tasks", BlankStr), "requirements", BlankStr)
    IN MapKey(MapKey(MapKey(d, "job", Job), "position", Position),
              "detail", Detail)

\* C6 as claimed: classify_doc returns a triple for every record, and a
\* field of an unexpected type (number, list, dict) counts as empty.
C6_UnexpectedTypesAreEmpty ==
    (pc = "done" /\ doc # None) =>
        /\ result.k = "tuple"
        /\ result = classify_doc(BlankedWith(doc, BlankStr))

\* C6 amended: classify_doc returns a triple for every record and never
\* raises; a field of an unexpected type counts as empty, except that a
\* non-empty list in one of the three job fields gives str(first element)
\* as the title.
C6_TotalAndBlankExceptJobLists ==
    (pc = "done" /\ doc # None) =>
        /\ result.k = "tuple"
        /\ result = classify_doc(BlankedWith(doc, BlankJob))

\* C6 witness: a record with a number where a str is read, a non-dict where
\* a dict is read and a job list, classified by the first item of the list
C6_Witness ==
    /\ pc = "done" /\ doc # None
    /\ result.k = "tuple"
    /\ GetPath(doc, <<"job">>).k = "num"
    /\ GetPath(doc, <<"position", "job">>).k = "list"
    /\ DictGet(doc, "detail").k = "list"
    /\ result.title = PyStr(Index0(GetPath(doc, <<"position", "job">>)))

\* a job field holds a usable title: a str that is not blank, or a list
\* whose first item is one; and the title it holds
Usable(v) ==
    \/ v.k = "str" /\ Strip(v.s) # <<>>
    \/ v.k = "list" /\ v.items # <<>> /\ v.items[1].k = "str"
           /\ Strip(v.items[1].s) # <<>>
TitleIn(v) == IF v.k = "list" THEN v.items[1] ELSE v

\* the job fields of d that hold a usable title, by their place in TitlePaths
UsablePaths(d) == { i \in DOMAIN TitlePaths : Usable(GetPath(d, TitlePaths[i])) }

\* the first line of the stripped intro, cut to 80 characters; the empty str
\* when there is no intro text
IntroFirstLine(d) ==
    LET intro == GetPath(d, <<"detail", "intro">>)
    IN IF intro.k = "str" /\ Strip(intro.s) # <<>>
       THEN Str(Take(FirstLine(Strip(intro.s)).s, TitleMaxChars))
       ELSE Str(<<>>)

\* C17: extract_title returns the title of the first of job, position.job
\* and detail.position.job that holds a usable one; when none does, the
\* first line of the stripped intro cut to 80 characters, the empty str
\* without an intro.
C17_TitleOrIntroFallback ==
    (pc = "done" /\ doc # None) =>
        IF UsablePaths(doc) # {}
        THEN extract_title(doc) = TitleIn(GetPath(doc, TitlePaths[Min(UsablePaths(doc))]))
        ELSE extract_title(doc) = IntroFirstLine(doc)

\* the texts of the first n of detail.intro, detail.main_tasks and
\* detail.requirements that are non-blank strs, in that order
BodyFields(d, n) ==
    LET Kept(i) ==
            LET v == GetPath(d, BodyPaths[i])
            IN IF v.k = "str" /\ Strip(v.s) # <<>> THEN <<v.s>> ELSE <<>>
        RECURSIVE Upto(_)
        Upto(i) == IF i = 0 THEN <<>> ELSE Upto(i - 1) \o Kept(i)
    IN Upto(n)

\* texts put one after the other, and put one per line in lower case
RECURSIVE Concatenated(_)
Concatenated(buf) ==
    IF buf = <<>> THEN <<>> ELSE Head(buf) \o Concatenated(Tail(buf))
RECURSIVE LoweredLines(_)
LoweredLines(buf) ==
    IF buf = <<>> THEN <<>>
    ELSE LET before == LoweredLines(SubSeq(buf, 1, Len(buf) - 1))
         IN (IF Len(buf) = 1 THEN <<>> ELSE before \o <<NL>>)
                \o Lower(buf[Len(buf)])

\* d with the body fields after the n-th emptied
WithoutFieldsAfter(d, n) ==
    LET later == { BodyPaths[j][2] : j \in (n + 1)..Len(BodyPaths) }
        Detail(dt) ==
            IF dt.k # "dict" THEN dt
            ELSE Dict([x \in DOMAIN dt.f |->
                          IF x \in later THEN Str(<<>>) ELSE dt.f[x]])
    IN MapKey(d, "detail", Detail)

\* the body is at most 10,000 characters long, and fields lying wholly
\* beyond the first 10,000 characters do not change the classification
BodyBounded(d, res) ==
    /\ StrLen(gather_body(d).s) <= BodyMaxChars
    /\ \A n \in DOMAIN BodyPaths :
          StrLen(LoweredLines(BodyFields(d, n))) >= BodyMaxChars
              => res = classify_doc(WithoutFieldsAfter(d, n))

\* C18 as claimed: gather_body returns the non-blank str fields intro,
\* main_tasks and requirements put one after the other in that order, cut
\* to 10,000 characters; text beyond the cut has no part in the bucket.
C18_BodyIsConcatenation ==
    (pc = "done" /\ doc # None) =>
        /\ gather_body(doc) =
              Str(Take(Concatenated(BodyFields(doc, Len(BodyPaths))), BodyMaxChars))
        /\ BodyBounded(doc, result)

\* C18 amended: gather_body returns those fields joined by one line feed
\* between each two and put in lower case, cut to 10,000 characters; the
\* result is never longer and text beyond the cut has no part in the bucket.
C18_BodyIsLoweredLines ==
    (pc = "done" /\ doc # None) =>
        /\ gather_body(doc) =
              Str(Take(LoweredLines(BodyFields(doc, Len(BodyPaths))), BodyMaxChars))
        /\ BodyBounded(doc, result)

\* C18 witness: three fields joined, one with an upper case word, the body
\* cut at 10,000 characters so that the requirements are left out
C18_Witness ==
    /\ pc = "done" /\ doc # None /\ result.k = "tuple"
    /\ Len(BodyFields(doc, Len(BodyPaths))) = 3
    /\ StrLen(gather_body(doc).s) = BodyMaxChars
    /\ Lower(GetPath(doc, <<"detail", "intro">>).s) # GetPath(doc, <<"detail", "intro">>).s
    /\ StrLen(LoweredLines(BodyFields(doc, 2))) >= BodyMaxChars

---------------------------------------------------------------------------
(* Properties of main *)

\* the closed set of bucket labels
BucketLabels ==
    {"security", "design", "product", "marketing", "sales", "cs",
     "manufacturing", "data", "ai_ml", "frontend", "backend", "legal",
     "logistics", "hr", "strategy_exec", "video_editing", "etc"}

\* C5: every bucket classify_doc returns for a document of the store, and
\* every bucket a document of the store holds after main wrote to it, is one
\* of the seventeen labels; so is every bucket the rule tables name.
C5_BucketInClosedSet ==
    /\ \A i \in DOMAIN results : results[i].bucket \in BucketLabels
    /\ \A i \in DOMAIN col :
           "bucket" \in DOMAIN col[i].f => col[i].f.bucket.b \in BucketLabels
    /\ \A i \in DOMAIN TITLE_RULES : TITLE_RULES[i].bucket \in BucketLabels
    /\ \A i \in DOMAIN BODY_RULES : BODY_RULES[i].bucket \in BucketLabels
    /\ \A i \in DOMAIN PRIORITY : PRIORITY[i] \in BucketLabels

\* C5 witness: a run with save that classified and wrote two documents, one
\* by a rule and one to etc
C5_Witness ==
    /\ pc = "done" /\ save
    /\ Len(results) = 2
    /\ \A i \in DOMAIN col : "bucket" \in DOMAIN col[i].f
    /\ col[1].f.bucket = Label(results[1].bucket)
    /\ col[2].f.bucket = Label(results[2].bucket)
    /\ results[1].bucket = "etc"
    /\ results[2].bucket \notin {"etc", NoBucket}

\* the documents the classification loop scans
Scanned == IF limit = 0 THEN DOMAIN col ELSE { i \in DOMAIN col : i <= limit }

\* C13: in a run with save no failing write ends main with an exception;
\* the run comes to its end with every scanned document classified, written
\* and counted.
C13_WriteFailureIsolated ==
    save =>
        /\ ~(pc = "raised" /\ exc = WriteError)
        /\ pc = "done" =>
               /\ report.total = Cardinality(Scanned)
               /\ \A i \in Scanned :
                      /\ "bucket" \in DOMAIN col[i].f
                      /\ col[i].f.bucket = Label(results[i].bucket)

\* the fields main writes
Persisted == {"bucket", "location", "district", "salary_bucket_2m_label"}
PersistedOf(d) == [x \in DOMAIN d.f \cap Persisted |-> d.f[x]]

\* C14: at the end of a second run with save over the store the first run
\* left, every document holds the bucket, location, district and
\* salary_bucket_2m_label it held at the end of the first run.
C14_SecondRunChangesNothing ==
    (save /\ pc = "done" /\ run >= 2) =>
        /\ Len(col) = Len(colPrev)
        /\ \A i \in DOMAIN col : PersistedOf(col[i]) = PersistedOf(colPrev[i])

\* C14 witness: a second run with save is over, after a first run that wrote
\* a bucket, a location copied from the address and a salary label
C14_Witness ==
    /\ save /\ pc = "done" /\ run = 2
    /\ Len(col) = 2
    /\ DOMAIN PersistedOf(col0[1]) = {}
    /\ DOMAIN PersistedOf(col[1]) = Persisted
    /\ DOMAIN PersistedOf(col0[2]) = {"location", "district"}
    /\ "bucket" \in DOMAIN col[2].f

\* C15: a document that has a non-empty top level location or district
\* before main runs holds the same value in every state of the run.
C15_TopLevelKept ==
    \A i \in DOMAIN col : \A key \in {"location", "district"} :
        LET v0 == DictGet(col0[i], key)
        IN (v0.k = "str" /\ v0.s # <<>>) => DictGet(col[i], key) = v0

\* C29: in a run without save no document has its bucket, location,
\* district or salary_bucket_2m_label written or changed: each holds what
\* it held before the first run.
C29_NoSaveWritesNothing ==
    ~save =>
        /\ Len(col) = Len(col0)
        /\ \A i \in DOMAIN col : PersistedOf(col[i]) = PersistedOf(col0[i])

---------------------------------------------------------------------------
(* Properties of chunk_by_paragraph_blocks *)

\* s[n:]
Drop(s, n) == SubSeq(s, n + 1, Len(s))

\* s starts with t; t occurs in s
IsPrefix(t, s) == Len(t) <= Len(s) /\ SubSeq(s, 1, Len(t)) = t
Contains(s, t) == \E n \in 0..(Len(s) - Len(t)) : SubSeq(s, n + 1, n + Len(t)) = t

\* s.split("\n\n")
RECURSIVE SplitBlocks(_)
SplitBlocks(s) ==
    LET at == { n \in 1..(Len(s) - 1) : s[n] = "\n" /\ s[n + 1] = "\n" }
    IN IF at = {} THEN <<s>>
       ELSE <<SubSeq(s, 1, Min(at) - 1)>> \o SplitBlocks(Drop(s, Min(at) + 1))

\* chunk k without the overlap prefix it was started with, and its blocks
Remainder(k) == Drop(chunks[k], pre[k])
HeldBlocks(k) == SplitBlocks(Remainder(k))

\* the blocks of all chunks, overlap prefixes removed, in chunk order
Reconstructed ==
    LET RECURSIVE Upto(_)
        Upto(k) == IF k = 0 THEN <<>> ELSE Upto(k - 1) \o HeldBlocks(k)
    IN Upto(Len(chunks))

\* C7: every returned chunk has at most max_chars characters, unless it
\* contains an input block that is itself longer than max_chars.
C7_ChunkWithinMaxChars ==
    pc = "done" =>
        \A k \in DOMAIN chunks :
            \/ Len(chunks[k]) <= max_chars
            \/ \E j \in DOMAIN blocks :
                   Len(blocks[j]) > max_chars /\ Contains(chunks[k], blocks[j])

\* C8: the chunks without their overlap prefixes, one after the other, are
\* the input blocks: every block whole, once, in its place.
C8_RoundTrip == pc = "done" => Reconstructed = blocks

---------------------------------------------------------------------------
(* Properties of standardize_company_salary *)

\* company.avgSalary of a record
AvgSalaryOf(d) == GetPath(d, <<"company", "avgSalary">>)

\* the value is a number above zero, and the k of its bin [k*BIN, (k+1)*BIN)
IsPositive(val) ==
    \/ val.k = "num" /\ val.v > 0
    \/ val.k = "float" /\ val.floor >= 0
BinOf(val) == (IF val.k = "num" THEN val.v ELSE val.floor) \div SalaryBin

\* C11: a salary above zero gets a label, the same as every salary of its
\* bin and another than every salary of another bin; a salary that is
\* missing, no number, zero or negative gets the empty result.
C11_LabelPerBin ==
    pc = "done" =>
        LET val == AvgSalaryOf(doc)
        IN IF IsPositive(val)
           THEN /\ result.k = "dict"
                /\ DOMAIN result.f = {"salary_bucket_2m_label"}
                /\ \A d2 \in SalaryDocs :
                       IsPositive(AvgSalaryOf(d2)) =>
                           (BinOf(AvgSalaryOf(d2)) = BinOf(val)
                               <=> standardize_company_salary(d2) = result)
           ELSE result = Dict(<<>>)

\* C11 witness: a salary on the last won of a bin that is not the first,
\* labelled
C11_Witness ==
    /\ pc = "done"
    /\ AvgSalaryOf(doc).k = "num"
    /\ AvgSalaryOf(doc).v > SalaryBin
    /\ AvgSalaryOf(doc).v % SalaryBin = SalaryBin - 1
    /\ result.k = "dict"
    /\ "salary_bucket_2m_label" \in DOMAIN result.f

\* the text of the label in a result of standardize_company_salary, the
\* two bounds rendered in it and what follows each
LabelText(r) == r.f.salary_bucket_2m_label.s[1].w
TildeAt(t) == CHOOSE i \in 1..Len(t) : SubSeq(t, i, i) = "~"
LowText(t) == SubSeq(t, 1, TildeAt(t) - 4)
LowUnit(t) == SubSeq(t, TildeAt(t) - 3, TildeAt(t) - 1)
HighText(t) == SubSeq(t, TildeAt(t) + 1, Len(t) - 3)
HighUnit(t) == SubSeq(t, Len(t) - 2, Len(t))

\* g is digits in groups of three from the right with commas between them
IsDigit(c) == \E d \in 0..9 : ToString(d) = c
WellGrouped(g) ==
    /\ Len(g) > 0 /\ Len(g) % 4 # 0
    /\ \A i \in 1..Len(g) :
           IF (Len(g) - i + 1) % 4 = 0 THEN SubSeq(g, i, i) = ","
           ELSE IsDigit(SubSeq(g, i, i))
    /\ Len(g) > 1 => SubSeq(g, 1, 1) # "0"

\* the number g renders
Ungroup(g) ==
    LET DigitOf(c) == CHOOSE d \in 0..9 : ToString(d) = c
        RECURSIVE Val(_, _)
        Val(i, acc) ==
            IF i > Len(g) THEN acc
            ELSE IF SubSeq(g, i, i) = "," THEN Val(i + 1, acc)
            ELSE Val(i + 1, 10 * acc + DigitOf(SubSeq(g, i, i)))
    IN Val(1, 0)

\* C12: for an int salary v above zero the label renders start / 10,000 and
\* end / 10,000 with thousands separators, where start is v floored to a
\* multiple of 2,000,000 and end = start + 2,000,000: start <= v < end, the
\* rendered bounds differ by 200 and are multiples of 200.
C12_LabelEncodesBin ==
    (pc = "done" /\ AvgSalaryOf(doc).k = "num" /\ AvgSalaryOf(doc).v > 0) =>
        LET v == AvgSalaryOf(doc).v
            t == LabelText(result)
            lo == Ungroup(LowText(t))
            hi == Ungroup(HighText(t))
        IN /\ WellGrouped(LowText(t)) /\ WellGrouped(HighText(t))
           /\ LowUnit(t) = "man" /\ HighUnit(t) = "man"
           /\ lo * ManWon = (v \div SalaryBin) * SalaryBin
           /\ hi * ManWon = lo * ManWon + SalaryBin
           /\ lo * ManWon <= v /\ v < hi * ManWon
           /\ hi - lo = 200
           /\ lo % 200 = 0 /\ hi % 200 = 0
           /\ result.f.salary_bucket_2m_label.s[1].n = Len(t) - 4

\* C12 witness: a salary whose bounds are rendered with a separator, the
\* upper one with a group of zeros
C12_Witness ==
    /\ pc = "done"
    /\ AvgSalaryOf(doc) = Num(9999999)
    /\ result.k = "dict"
    /\ LabelText(result) = "800man~1,000man"


---------------------------------------------------------------------------
(* Properties of extract_sido *)

\* the leading runs of non-whitespace characters of s that end in 시 or 도
\* after one character at least, by their length
SidoRuns(s) == { i \in 2..RunLen(s) : s[i].w \in {"si", "do"} }

\* C19: for every str, the empty, the blank and the one with leading
\* whitespace too, extract_sido returns a str and does not raise: the
\* shortest leading run of non-whitespace characters ending in 시 or 도
\* when there is one, else the first whitespace-delimited token, else "".
C19_SidoTotal ==
    (pc = "done" /\ full_location # None) =>
        LET s == full_location.s
        IN /\ result.k = "str"
           /\ result.s = IF SidoRuns(s) # {} THEN SubSeq(s, 1, Min(SidoRuns(s)))
                         ELSE IF Split(s) # <<>> THEN Split(s)[1]
                         ELSE <<>>

---------------------------------------------------------------------------
(* Properties of norm_sido and build_blocks_and_meta *)

\* meta["location"], the empty str when meta has no such key
MetaLocation(meta) ==
    IF "location" \in DOMAIN meta.f THEN meta.f["location"] ELSE Str(<<>>)

\* a and b name the same region: they are equal, or the table gives both
\* the same short form, or one is the short form the table gives the other
SameRegion(a, b) ==
    LET names == SidoTable \cup { <<p[2], p[2]>> : p \in SidoTable }
    IN a = b \/ \E p, q \in names : p[1] = a /\ q[1] = b /\ p[2] = q[2]

\* C20: norm_sido gives every key of its table the short form, gives back
\* any other str unchanged once stripped, and meta["location"] of
\* build_blocks_and_meta is the norm_sido of the record's location, so that
\* two records whose locations name the same region get the same
\* meta["location"].
C20_LocationNormalized ==
    (pc = "done" /\ doc # None) =>
        LET loc == LocationOf(doc)
            out == MetaLocation(result)
            padded == Str(<<SP>> \o loc.s \o <<SP, NL>>)
        IN /\ \A p \in SidoTable : loc = p[1] => out = p[2]
           /\ (\A p \in SidoTable : loc # p[1]) => out = loc
           /\ out = norm_sido(loc) /\ out = norm_sido(padded)
           /\ \A d \in MetaDocs :
                 SameRegion(loc, LocationOf(d))
                     => MetaLocation(build_blocks_and_meta(d)) = out

\* C20 witness: a record without address.location whose full_location
\* starts with a long name of the table, and meta["location"] its short form
C20_Witness ==
    /\ pc = "done" /\ doc # None
    /\ ~Truthy(AddrField(doc, "location"))
    /\ LocationOf(doc) = T(<<"seo", "ul", "teuk", "byeol", "si">>)
    /\ MetaLocation(result) = T(<<"seo", "ul">>)

---------------------------------------------------------------------------
(* Properties of the wanted Spider *)

\* the job ids of seq, as a set
IdsOf(seq) == { seq[i] : i \in DOMAIN seq }

\* C21: in update mode start_requests in the end has yielded a detail
\* request for every url of the crawl log with purpose job_posting.
C21_UpdateRevisitsLogged ==
    <>(mode = "update" =>
          /\ pc = "crawl"
          /\ request_update_jobs(log) \subseteq scheduled)

\* C22: in create mode, for every max_jobs >= 0 and every listing, the
\* number of detail requests yielded over the run, collected_count, is
\* never above max_jobs.
C22_AtMostMaxJobs ==
    (mode = "create" /\ max_jobs >= 0) =>
        /\ collected_count <= max_jobs
        /\ Len(issued) <= max_jobs

\* C23: in create mode no detail request is yielded for a posting whose
\* detail url was loaded from the crawl log, and a posting skipped so does
\* not count: collected_count is the number of detail requests yielded.
C23_LoadedUrlsSkipped ==
    mode = "create" =>
        /\ \A j \in IdsOf(issued) : DetailUrl(j) \notin crawled_urls
        /\ \A r \in scheduled :
              r.callback = "parse_detail" => DetailUrl(r.id) \notin crawled_urls
        /\ collected_count = Len(issued)

\* C23 witness: a page with a loaded posting before a new one has been
\* parsed: the loaded one skipped, the new one requested, max_jobs reached
C23_Witness ==
    /\ mode = "create" /\ pc = "crawl"
    /\ DetailUrl(1) \in crawled_urls
    /\ Len(listing) >= 1 /\ Len(listing[1]) >= 2
    /\ issued = <<2>>
    /\ collected_count = 1 /\ max_jobs = 1

\* C27: in create mode the crawl of a finite listing ends: from some point
\* on the scheduler holds no list request.
C27_CrawlEnds ==
    <>[](\A r \in scheduled : r.callback # "parse_list")

\* the urls of the documents of lg with the purpose, as a set
LoggedUrls(lg, purpose) ==
    { FindUrls(lg, purpose)[i] : i \in DOMAIN FindUrls(lg, purpose) }

\* the limit of parse: crawled_companies, the number of PassAssay requests
\* yielded, is never above max_companies, and once it has reached
\* max_companies the scheduler holds no request of a further list page
CompanyLimitKept ==
    /\ crawled_companies <= max_companies
    /\ Len(issued) = crawled_companies
    /\ crawled_companies >= max_companies =>
          \A r \in scheduled : r.callback = "parse" => r.page = 1

C25_AtMostMaxEssays ==
    pc = "jk_crawl" =>
        /\ \A c \in Companies : essays[c] <= max_essays_per_company
        /\ \A r \in scheduled :
              r.callback = "parse_company_essays" =>
                  r.crawled_essays = essays[r.company]

\* C25 witness: a company with essay pages of 1 and 2 links has been read
\* to the end with max_essays_per_company = 2: one request from the first
\* page, one from the second
C25_Witness ==
    /\ pc = "jk_crawl"
    /\ \E c \in Companies :
          /\ essay_pages[c] = <<1, 2>>
          /\ max_essays_per_company = 2
          /\ essays[c] = 2
          /\ [callback |-> "parse_company_essays", company |-> c, page |-> 2]
                 \in seen
          /\ \A r \in scheduled :
                r.callback = "parse_company_essays" => r.company # c

\* C28: whenever the crawl log holds a url with purpose job_posting,
\* master_job_postings holds a document with that sourceUrl.
C28_LoggedPostingHasMaster ==
    pc = "post" =>
        \A url \in LoggedUrls(log, "job_posting") :
            \E k \in DOMAIN master_job_postings :
                master_job_postings[k].metadata.sourceUrl = url

\* no two documents of c have the same metadata.sourceUrl
UniqueSourceUrl(c) ==
    \A i, j \in DOMAIN c :
        c[i].metadata.sourceUrl = c[j].metadata.sourceUrl => i = j

\* no two entries of the log have the same url, and no entry holds a
\* purpose twice
UniqueLog(lg) ==
    /\ \A i, j \in DOMAIN lg : lg[i].url = lg[j].url => i = j
    /\ \A i \in DOMAIN lg :
          \A a, b \in DOMAIN lg[i].purposes :
              lg[i].purposes[a] = lg[i].purposes[b] => a = b

StoresUnique ==
    /\ UniqueSourceUrl(wanted_job_postings)
    /\ UniqueSourceUrl(master_job_postings)
    /\ UniqueSourceUrl(cover_letters)
    /\ UniqueLog(log)

\* the log without the crawledAt of its entries
WithoutCrawledAt(lg) ==
    [i \in DOMAIN lg |-> [url |-> lg[i].url, purposes |-> lg[i].purposes]]

\* this step is a call of process_item of the pipeline of the call before
\* it, on the same item
SameItemAgain ==
    /\ clock > 0
    /\ clock' = clock + 1
    /\ called'.pipeline = called.pipeline
    /\ called'.item = called.item

\* this step leaves the collections as they are, and the log but for
\* crawledAt
OnlyCrawledAtChanges ==
    /\ wanted_job_postings' = wanted_job_postings
    /\ master_job_postings' = master_job_postings
    /\ cover_letters' = cover_letters
    /\ WithoutCrawledAt(log') = WithoutCrawledAt(log)

===========================================================================
